---- MODULE Spec2Model ----
(***************************************************************************)
(* Model of the Sigma rule generation scripts of LogSources_SigmaRules.   *)
(*                                                                         *)
(* Specification Spec is one run of a rule generator script.  The script   *)
(* variants of the repository share one pipeline shape (load catalogue,    *)
(* load or fetch the optional sources, reset the output directory, emit    *)
(* one file per combination) and differ in the details, so the variable    *)
(* script selects the variant and every step is translated per variant:    *)
(*   "organiser"  scripts/generate-sigma-rules.js                          *)
(*   "external"   unnamed/part_002                                         *)
(*   "sigmapat"   scripts/intelligent-sigma-generator.js (first script)    *)
(*   "fieldmap"   unnamed/part_005                                         *)
(*   "keyword"    unnamed/part_004 (second script)                         *)
(*                                                                         *)
(* JavaScript strings that the code converts, matches or hashes are        *)
(* sequences of one-character strings; strings the code only compares or   *)
(* copies are TLA+ strings.                                                *)
(***************************************************************************)
EXTENDS Integers, Sequences, FiniteSets, TLC

(***************************************************************************)
(* Bounds of the model.                                                    *)
(***************************************************************************)
MaxLogsources == 2
MaxActors == 2
MaxFsFailures == 1

(***************************************************************************)
(* String helpers (String.prototype methods used by the scripts).          *)
(***************************************************************************)
UpperChars == <<"A","B","C","D","E","F","G","H","I","J","K","L","M",
                "N","O","P","Q","R","S","T","U","V","W","X","Y","Z">>
LowerChars == <<"a","b","c","d","e","f","g","h","i","j","k","l","m",
                "n","o","p","q","r","s","t","u","v","w","x","y","z">>
DigitChars == <<"0","1","2","3","4","5","6","7","8","9">>

Range(s) == {s[i] : i \in DOMAIN s}

IsDigit(c) == c \in Range(DigitChars)
IsSpace(c) == c \in {" ", "\t", "\r", "\n"}
IsWordChar(c) == c \in Range(UpperChars) \cup Range(LowerChars) \cup Range(DigitChars) \cup {"_"}

ToLowerChar(c) ==
  IF c \in Range(UpperChars)
    THEN LowerChars[CHOOSE i \in DOMAIN UpperChars : UpperChars[i] = c]
    ELSE c

toLowerCase(s) == [i \in DOMAIN s |-> ToLowerChar(s[i])]

\* s.includes(sub)
Includes(s, sub) ==
  \E i \in 1..(Len(s) - Len(sub) + 1) : SubSeq(s, i, i + Len(sub) - 1) = sub

\* s.replace(/\s+/g, '_'): every maximal run of whitespace becomes one '_'
RECURSIVE ReplaceSpaces(_)
ReplaceSpaces(s) ==
  IF s = <<>> THEN <<>>
  ELSE IF IsSpace(Head(s))
    THEN IF Len(s) > 1 /\ IsSpace(s[2])
           THEN ReplaceSpaces(Tail(s))
           ELSE <<"_">> \o ReplaceSpaces(Tail(s))
    ELSE <<Head(s)>> \o ReplaceSpaces(Tail(s))

AllDigits(s) == Len(s) >= 1 /\ \A i \in DOMAIN s : IsDigit(s[i])

\* techniqueId.match(/^T\d+(\.\d+)?$/)
MatchesTNumber(s) ==
  /\ Len(s) >= 2
  /\ s[1] = "T"
  /\ LET rest == Tail(s)
         dots == {i \in DOMAIN rest : rest[i] = "."}
     IN  \/ dots = {} /\ AllDigits(rest)
         \/ \E d \in dots : /\ AllDigits(SubSeq(rest, 1, d - 1))
                            /\ AllDigits(SubSeq(rest, d + 1, Len(rest)))

(***************************************************************************)
(* Insertion-ordered maps (plain JavaScript objects keyed by technique):   *)
(* a sequence of [tech, items] entries in insertion order.                 *)
(***************************************************************************)
MapKeys(m) == {m[i].tech : i \in DOMAIN m}
MapGet(m, k) ==
  IF k \in MapKeys(m) THEN m[CHOOSE i \in DOMAIN m : m[i].tech = k].items ELSE <<>>

\* if (!m[k]) m[k] = []; m[k].push(...vs)
MapPushAll(m, k, vs) ==
  IF k \in MapKeys(m)
    THEN [i \in DOMAIN m |-> IF m[i].tech = k
                               THEN [tech |-> k, items |-> m[i].items \o vs]
                               ELSE m[i]]
    ELSE Append(m, [tech |-> k, items |-> vs])

SeqContains(s, x) == \E i \in DOMAIN s : s[i] = x

\* if (!m[k]) m[k] = []; if (!m[k].includes(v)) m[k].push(v)
MapPushUnique(m, k, v) ==
  IF k \in MapKeys(m)
    THEN IF SeqContains(MapGet(m, k), v) THEN m ELSE MapPushAll(m, k, <<v>>)
    ELSE Append(m, [tech |-> k, items |-> <<v>>])

\* [...new Set(s)]: first occurrences, in order
RECURSIVE Dedup(_)
Dedup(s) ==
  IF s = <<>> THEN <<>>
  ELSE LET init == Dedup(SubSeq(s, 1, Len(s) - 1))
       IN  IF SeqContains(init, s[Len(s)]) THEN init ELSE Append(init, s[Len(s)])

\* the subsequences of at most n elements of the sequence list
RECURSIVE SubSeqsOf(_, _)
SubSeqsOf(list, n) ==
  IF list = <<>> \/ n = 0 THEN {<<>>}
  ELSE SubSeqsOf(Tail(list), n) \cup
       {<<Head(list)>> \o s : s \in SubSeqsOf(Tail(list), n - 1)}

(***************************************************************************)
(* The inputs of a run.  Technique identifiers and actor names are         *)
(* character sequences because the scripts match, lower-case and sanitise  *)
(* them.                                                                   *)
(***************************************************************************)
T1486 == <<"T","1","4","8","6">>
T1059_001 == <<"T","1","0","5","9",".","0","0","1">>
T123 == <<"T","1","2","3">>
TX123 == <<"T","X","1","2","3">>

ActFIN7 == <<"F","I","N","7">>
ActFin7Lower == <<"f","i","n","7">>
ActLazarus == <<"L","a","z","a","r","u","s"," ","G","r","o","u","p">>
ActAPT1 == <<"A","P","T","1">>

YmlSuffix == <<".","y","m","l">>
StaleFile == <<"o","l","d",".","y","m","l">>

\* entries of logsources.json: { product, service, category, fieldMappings? }
\* fieldMappings is modelled by hasFm (the property exists), fmCats (the
\* categories it has an entry for) and fm (the <<category, field, mapped>>
\* triples of those entries)
LsSysmonProc ==
  [product |-> "windows", service |-> "sysmon", category |-> "process_creation",
   hasFm |-> TRUE, fmCats |-> {"process_creation"},
   fm |-> {<<"process_creation", "Image", "Image">>,
           <<"process_creation", "CommandLine", "CommandLine">>}]
LsSysmonNet ==
  [product |-> "windows", service |-> "sysmon", category |-> "network_connection",
   hasFm |-> FALSE, fmCats |-> {}, fm |-> {}]
LsSecurityProc ==
  [product |-> "windows", service |-> "security", category |-> "process_creation",
   hasFm |-> TRUE, fmCats |-> {"authentication"},
   fm |-> {<<"authentication", "User", "TargetUserName">>}]
LsAuditd ==
  [product |-> "linux", service |-> "auditd", category |-> "custom_audit",
   hasFm |-> TRUE, fmCats |-> {"custom_audit"}, fm |-> {}]

LogSourceUniverse == <<LsSysmonProc, LsSysmonNet, LsSecurityProc, LsAuditd>>

LsKey(ls) == <<ls.product, ls.service, ls.category>>

\* logsources.json on disk: absent, not JSON, JSON without a logsources
\* list, or a list of entries
CatalogueFiles ==
  {[status |-> "missing", logsources |-> <<>>],
   [status |-> "unparsable", logsources |-> <<>>],
   [status |-> "nokey", logsources |-> <<>>]} \cup
  {[status |-> "ok", logsources |-> l] : l \in SubSeqsOf(LogSourceUniverse, MaxLogsources)}

\* entries of external-rules-index.json: { source, product, service?, category?, query }
\* ("" is an absent property, <<>> an absent or empty query)
QueryWin == <<"p","r","o","c","e","s","s"," ","w","h","e","r","e"," ","h","o","s","t",
              ".","o","s",".","t","y","p","e"," ","=","="," ","\"","w","i","n","d","o","w","s","\"">>
QueryBash == <<"p","r","o","c","e","s","s",".","n","a","m","e"," ",":"," ","\"","b","a","s","h","\"">>
StrWindows == <<"w","i","n","d","o","w","s">>
StrGoogleWorkspace == <<"g","o","o","g","l","e","_","w","o","r","k","s","p","a","c","e">>

RuleSigmaWin ==
  [source |-> "sigma", product |-> "windows", service |-> "sysmon",
   category |-> "process_creation", query |-> QueryBash]
RuleElasticWin ==
  [source |-> "elastic", product |-> "windows", service |-> "",
   category |-> "", query |-> QueryWin]
RuleElasticLinux ==
  [source |-> "elastic", product |-> "linux", service |-> "",
   category |-> "", query |-> QueryWin]
RuleSplunkUnknown ==
  [source |-> "splunk", product |-> "unknown", service |-> "",
   category |-> "", query |-> <<>>]

IndexA == <<[tech |-> T1486, items |-> <<RuleElasticWin, RuleSigmaWin>>],
            [tech |-> TX123, items |-> <<RuleElasticWin>>]>>
IndexB == <<[tech |-> T1486, items |-> <<RuleSplunkUnknown, RuleElasticLinux>>]>>

IndexFiles ==
  {[status |-> "missing", rules |-> <<>>],
   [status |-> "ok", rules |-> IndexA],
   [status |-> "ok", rules |-> IndexB]}

\* entries of data/sigma-technique-map.json (written by unnamed/part_003):
\* { product, service, category, detections: [{ field, values }] };
\* a value is [type, s]: typeof and the text
StrCWindows == <<"C",":","\\","W","i","n","d","o","w","s">>
StrSystem32 == <<"s","y","s","t","e","m","3","2">>
StrBsSystem32 == <<"\\","s","y","s","t","e","m","3","2">>
ValCipher == [type |-> "string", s |-> <<"c","i","p","h","e","r",".","e","x","e">>]
ValWinDir == [type |-> "string", s |-> <<"C",":","\\","W","i","n","d","o","w","s","\\","c","m","d">>]
ValSys32 == [type |-> "string", s |-> <<"S","y","s","t","e","m","3","2","\\","c","m","d">>]
ValSlashE == [type |-> "string", s |-> <<"/","e">>]
ValEmpty == [type |-> "string", s |-> <<>>]
ValNumber == [type |-> "number", s |-> <<"4","6","8","8">>]

SigmaRuleUsable ==
  [product |-> "windows", service |-> "sysmon", category |-> "process_creation",
   detections |-> <<[field |-> "Image", values |-> <<ValWinDir, ValCipher>>],
                    [field |-> "CommandLine", values |-> <<ValSlashE>>],
                    [field |-> "ParentImage", values |-> <<ValCipher>>]>>]
SigmaRuleFiltered ==
  [product |-> "windows", service |-> "security", category |-> "process_creation",
   detections |-> <<[field |-> "Image", values |-> <<ValSys32, ValEmpty, ValNumber>>]>>]

\* rules that all match windows/sysmon: more values, more patterns and
\* more rules than the synthesis takes
ValPwsh == [type |-> "string", s |-> <<"p","w","s","h",".","e","x","e">>]
ValCmd == [type |-> "string", s |-> <<"c","m","d",".","e","x","e">>]
SigmaRuleWide ==
  [product |-> "windows", service |-> "sysmon", category |-> "process_creation",
   detections |-> <<[field |-> "Image", values |-> <<ValCipher, ValSys32, ValPwsh, ValCmd, ValSlashE>>],
                    [field |-> "CommandLine", values |-> <<ValSlashE>>],
                    [field |-> "ParentImage", values |-> <<ValCipher>>]>>]
SigmaRuleUser ==
  [product |-> "windows", service |-> "sysmon", category |-> "file_event",
   detections |-> <<[field |-> "User", values |-> <<ValCipher>>]>>]
SigmaRuleTarget ==
  [product |-> "windows", service |-> "", category |-> "process_creation",
   detections |-> <<[field |-> "TargetFilename", values |-> <<ValCmd, ValPwsh>>]>>]
SigmaRuleHashes ==
  [product |-> "windows", service |-> "sysmon", category |-> "process_creation",
   detections |-> <<[field |-> "Hashes", values |-> <<ValCipher>>]>>]

SigmaMapFiles ==
  {[status |-> "missing", map |-> <<>>],
   [status |-> "unparsable", map |-> <<>>],
   [status |-> "ok", map |-> <<[tech |-> T1486, items |-> <<SigmaRuleFiltered, SigmaRuleUsable>>]>>],
   [status |-> "ok", map |-> <<[tech |-> T1059_001,
                                items |-> <<SigmaRuleWide, SigmaRuleUser, SigmaRuleTarget,
                                            SigmaRuleHashes>>]>>]}

\* ttp-index.json of ThreatActors-TTPs: actors: [{ name, techniques }]
ActorRecords ==
  <<[name |-> ActFIN7, techniques |-> <<T1486, TX123>>],
    [name |-> ActFin7Lower, techniques |-> <<T1486>>],
    [name |-> ActLazarus, techniques |-> <<T123, T1486, T1486>>],
    [name |-> ActFIN7, techniques |-> <<T1059_001>>]>>

TtpFetches ==
  {[status |-> "fail", actors |-> <<>>]} \cup
  {[status |-> "ok", actors |-> a] : a \in SubSeqsOf(ActorRecords, MaxActors)}

\* the MITRE data: the 'uses' relationships resolved to (actor name,
\* technique id) and the technique ids the data describes
MitreFetches ==
  {[status |-> "fail", rels |-> <<>>, techniques |-> {}],
   [status |-> "ok", rels |-> <<[actor |-> ActAPT1, tech |-> TX123]>>,
    techniques |-> {T1486, T1059_001, T123}],
   [status |-> "ok", rels |-> <<[actor |-> ActFIN7, tech |-> T1486],
                               [actor |-> ActFIN7, tech |-> T1486]>>,
    techniques |-> {T1486, TX123}]}

NoIndex == [status |-> "unused", rules |-> <<>>]
NoSigmaMap == [status |-> "unused", map |-> <<>>]
NoTtp == [status |-> "unused", actors |-> <<>>]
NoMitre == [status |-> "unused", rels |-> <<>>, techniques |-> {}]

Scripts == {"organiser", "external", "sigmapat", "fieldmap", "keyword"}

\* the output directory before the run: absent, or left by an earlier run
OutDirs == {[exists |-> FALSE, dirs |-> {}, files |-> {}],
            [exists |-> TRUE,
             dirs |-> {[product |-> "windows", service |-> "sysmon", actor |-> <<>>]},
             files |-> {[product |-> "windows", service |-> "sysmon",
                         actor |-> <<>>, file |-> StaleFile]}]}

(***************************************************************************)
(* State of a generator run.                                               *)
(***************************************************************************)
VARIABLES
  script,            \* the script variant that runs
  env,               \* the files and fetch results the run will see
  pc,                \* position of main()
  exitStatus,        \* "running", or the exit code "0" / "1"
  exitCause,         \* what ended the run
  logsources,        \* main: logsources
  externalRules,     \* main: externalRules
  sigmaTechniqueMap, \* main: sigmaTechniqueMap
  actorTechMap,      \* main: actorTechMap / allActorTechMap / techniqueToActors
  techniqueMap,      \* main: techniqueMap (keyword variant)
  outDir,            \* the output directory
  outTouched,        \* the run has removed or created the output directory
  wi,                \* emit loop: index of the (technique, log source) pair
  ai,                \* emit loop: index of the actor
  conditions,        \* emit loop: result of the last synthesis
  written,           \* the writeFileSync calls that succeeded
  stats,             \* the counters of main
  warnings,          \* the warnings logged
  fsFailures         \* filesystem errors raised so far

genVars == <<script, env, pc, exitStatus, exitCause, logsources, externalRules,
             sigmaTechniqueMap, actorTechMap, techniqueMap, outDir, outTouched,
             wi, ai, conditions, written, stats, warnings, fsFailures>>

(***************************************************************************)
(* State of the other programs of the repository.  Each is run by a        *)
(* specification of its own; a specification leaves the variables of the   *)
(* programs it does not run at their idle values.                          *)
(***************************************************************************)
VARIABLES
  \* scripts/generate-logsources.js
  catPc,             \* position of main()
  catEnv,            \* ANTHROPIC_API_KEY is set, and the answer for each product
  catFile,           \* logsources.json on disk
  existingLogsources,\* main: existingLogsources
  newLogsources,     \* generateLogsourcesFromDocs: logsources
  skipped,           \* generateLogsourcesFromDocs: skipped
  loaded,            \* the list a rule generator reads from the saved file
  \* isTechniqueRelevantToLogsource applied to one input
  relPc, relTechnique, relLogsource, relResult,
  \* parseDetectionFromQuery of unnamed/part_002
  parsePc,           \* position in the function
  query,             \* argument query
  source,            \* argument source
  lines,             \* query.split('\n')
  lineIdx,           \* index of the for...of loop over lines
  detectionObj,      \* detection: the object being filled
  parsed,            \* the value returned
  \* generateSigmaYAML / generateUUID of unnamed/part_001
  today,             \* the date new Date() returns
  yamls              \* the rules generated so far: their inputs, id and date

catVars == <<catPc, catEnv, catFile, existingLogsources, newLogsources, skipped, loaded>>
relVars == <<relPc, relTechnique, relLogsource, relResult>>
parseVars == <<parsePc, query, source, lines, lineIdx, detectionObj, parsed>>
uuidVars == <<today, yamls>>

VARIABLES
  \* the random generateUUID of the generator scripts
  rndNum,            \* the number Math.random() returns next, in units of 1/RandomResolution
  rndStep,           \* how far the random source moves from one call to the next
  uuids              \* the identifiers generated so far

VARIABLES
  \* one script's network fetches: fetchURL / fetchJSON and the awaiting main()
  fetchFn,           \* which fetch function the script has
  fetchPlans,        \* what the server does with each request of the run
  fetchFatal,        \* main() exits when a fetch rejects (otherwise it warns and goes on)
  fetchIdx,          \* the request main() is at
  fetchPc,           \* position of main()
  promise,           \* state of the promise the fetch function returned
  received,          \* 'data' events delivered for the request
  ended,             \* the 'end' event was delivered
  errored,           \* the 'error' event was delivered
  destroyed,         \* request.destroy() was called
  timerArmed         \* request.setTimeout() was called

VARIABLES
  \* mergeRules and main() of scripts/fetch-external-rules.js
  mergePc,           \* position of main()
  elasticRuleSet, sigmaRuleSet, splunkRuleSet,  \* main: elasticRules, sigmaRules, splunkRules
  arrays,            \* the arrays of rules on the heap, by identity
  fetchedRuleSets,   \* the content of the rule sets when the fetchers returned
  allRules           \* main: allRules

VARIABLES
  \* the selection of the external rule for one technique and log source
  matchFn,           \* the script whose selection runs
  matchRules,        \* the technique's rule list of the index
  matchLogsource,    \* the log source
  matchPc,           \* position of the caller
  matchSurvivors,    \* the rules that passed the function's filter
  matchChosen        \* the rule the caller goes on with, or null

VARIABLES
  \* the Elastic branch of parseQuery (scripts/generate-sigma-rules.js) and of
  \* parseDetectionFromQuery (unnamed/part_002)
  elFn,              \* the function that runs
  elQuery,           \* argument query
  elPc,              \* position in the function
  elStrict,          \* fields / detection after the first loop
  elFields           \* fields / detection when the function returns

VARIABLES
  \* generateSigmaRule of unnamed/part_002
  ruleArg,           \* argument externalRule
  ruleLogsource,     \* argument logsource
  rulePc,            \* position in the function
  ruleDetection,     \* detection
  ruleYAML,          \* detectionYAML: the lines below "selection:"
  ruleStats          \* main: totalRules, rulesWithDetection, rulesPlaceholder

VARIABLES
  \* main() of unnamed/part_000, the generator with the built-in pattern table
  patLogsources,     \* main: logsources
  patTi,             \* index of the loop over Object.entries(TECHNIQUE_PATTERNS)
  patLi,             \* index of the loop over logsources
  patPc,             \* position of main()
  patWritten,        \* the rules written: technique, log source, blocks, condition
  patOutDir          \* the directory sigma-rules-intelligent

VARIABLES
  \* formatQuery of unnamed/part_001
  fmtQuery,          \* argument query
  fmtPc,             \* position in the function
  fmtOutput          \* the lines of the string returned

VARIABLES
  \* the loop of the deterministic generateUUID of unnamed/part_001
  hashStr,           \* argument str
  hashI,             \* loop variable i
  hashVal,           \* local hash
  hashPc,            \* position in the function
  hashWrapped,       \* some step's sum was outside the 32-bit range
  hashId             \* the string returned

randVars == <<rndNum, rndStep, uuids>>
elasticVars == <<elFn, elQuery, elPc, elStrict, elFields>>
ruleVars == <<ruleArg, ruleLogsource, rulePc, ruleDetection, ruleYAML, ruleStats>>
patVars == <<patLogsources, patTi, patLi, patPc, patWritten, patOutDir>>
fmtVars == <<fmtQuery, fmtPc, fmtOutput>>
hashVars == <<hashStr, hashI, hashVal, hashPc, hashWrapped, hashId>>
thirdVars == <<elasticVars, ruleVars, patVars, fmtVars, hashVars>>
fetchVars == <<fetchFn, fetchPlans, fetchFatal, fetchIdx, fetchPc, promise, received,
               ended, errored, destroyed, timerArmed>>
mergeVars == <<mergePc, elasticRuleSet, sigmaRuleSet, splunkRuleSet, arrays,
               fetchedRuleSets, allRules>>
matchVars == <<matchFn, matchRules, matchLogsource, matchPc, matchSurvivors, matchChosen>>
laterVars == <<randVars, fetchVars, mergeVars, matchVars, thirdVars>>
nonGenVars == <<catVars, relVars, parseVars, uuidVars, laterVars>>

NullConditions == [isNull |-> TRUE, det |-> <<>>]
ZeroStats == [total |-> 0, skippedNoConditions |-> 0, skippedInvalidTech |-> 0,
              skippedWriteError |-> 0, withDetection |-> 0, placeholder |-> 0]

UsesIndex(sc) == sc \in {"organiser", "external"}
UsesSigmaMap(sc) == sc = "sigmapat"
UsesTtp(sc) == sc \in {"external", "sigmapat", "fieldmap", "keyword"}
UsesMitre(sc) == sc \in {"sigmapat", "fieldmap", "keyword"}

GenInit ==
  /\ script \in Scripts
  /\ \E c \in CatalogueFiles, o \in OutDirs :
     \E x \in (IF UsesIndex(script) THEN IndexFiles ELSE {NoIndex}),
        g \in (IF UsesSigmaMap(script) THEN SigmaMapFiles ELSE {NoSigmaMap}),
        t \in (IF UsesTtp(script) THEN TtpFetches ELSE {NoTtp}),
        m \in (IF UsesMitre(script) THEN MitreFetches ELSE {NoMitre}) :
       env = [catalogue |-> c, index |-> x, sigmaMap |-> g, ttp |-> t,
              mitre |-> m, outDir |-> o]
  /\ pc = "loadLogsources"
  /\ exitStatus = "running"
  /\ exitCause = "none"
  /\ logsources = <<>>
  /\ externalRules = <<>>
  /\ sigmaTechniqueMap = <<>>
  /\ actorTechMap = <<>>
  /\ techniqueMap = {}
  /\ outDir = env.outDir
  /\ outTouched = FALSE
  /\ wi = 1
  /\ ai = 1
  /\ conditions = NullConditions
  /\ written = {}
  /\ stats = ZeroStats
  /\ warnings = {}
  /\ fsFailures = 0

\* process.exit(code)
Exit(code, cause) ==
  /\ pc' = "exited"
  /\ exitStatus' = code
  /\ exitCause' = cause

(***************************************************************************)
(* Step 1 of every main(): load logsources.json.                           *)
(***************************************************************************)
\* a loader that treats the catalogue as one more optional input: on any
\* failure it goes on with an empty list
LoadLogsourcesBestEffort ==
  /\ pc = "loadLogsources"
  /\ logsources' = IF env.catalogue.status = "ok" THEN env.catalogue.logsources ELSE <<>>
  /\ pc' = IF script \in {"organiser", "external", "sigmapat"}
             THEN "loadExternalRules" ELSE "fetchData"
  /\ UNCHANGED <<script, env, exitStatus, exitCause, externalRules, sigmaTechniqueMap,
                 actorTechMap, techniqueMap, outDir, outTouched, wi, ai, conditions,
                 written, stats, warnings, fsFailures>>
  /\ UNCHANGED nonGenVars

\* the scripts that read `data.logsources || []` accept a document without
\* the list; the others read `.length` of undefined, which throws into the
\* catch block
LoadLogsources ==
  /\ pc = "loadLogsources"
  /\ LET c == env.catalogue
         tolerant == script \in {"organiser", "external"}
     IN  IF c.status \in {"missing", "unparsable"} \/ (c.status = "nokey" /\ ~tolerant)
           THEN /\ Exit("1", "catalogue")
                /\ UNCHANGED logsources
           ELSE /\ logsources' = c.logsources
                /\ pc' = IF script \in {"organiser", "external", "sigmapat"}
                           THEN "loadExternalRules" ELSE "fetchData"
                /\ UNCHANGED <<exitStatus, exitCause>>
  /\ UNCHANGED <<script, env, externalRules, sigmaTechniqueMap, actorTechMap,
                 techniqueMap, outDir, outTouched, wi, ai, conditions, written,
                 stats, warnings, fsFailures>>
  /\ UNCHANGED nonGenVars

(***************************************************************************)
(* isTechniqueRelevantToLogsource: the table techniqueToLogsource.  Every  *)
(* regular expression of the table is an unanchored alternation of         *)
(* literals T#### or T####\.###; a literal is written <<number, sub>>      *)
(* with sub = -1 when it has no sub-technique part.                        *)
(***************************************************************************)
Patterns_process_creation ==
  <<{<<1059, -1>>, <<1651, -1>>, <<1648, -1>>, <<1059, 1>>, <<1059, 2>>,
     <<1059, 3>>, <<1059, 4>>, <<1059, 5>>, <<1059, 6>>, <<1059, 7>>,
     <<1059, 8>>},
    {<<1218, -1>>, <<1218, 1>>, <<1218, 2>>, <<1218, 3>>, <<1218, 4>>,
     <<1218, 5>>, <<1218, 7>>, <<1218, 8>>, <<1218, 9>>, <<1218, 10>>,
     <<1218, 11>>, <<1218, 12>>, <<1218, 13>>},
    {<<1047, -1>>, <<1106, -1>>, <<1053, -1>>, <<1129, -1>>,
     <<1559, -1>>, <<1559, 1>>, <<1559, 2>>},
    {<<1622, -1>>, <<1574, -1>>, <<1574, 1>>, <<1574, 2>>, <<1574, 4>>,
     <<1574, 8>>, <<1574, 10>>, <<1574, 11>>, <<1574, 12>>,
     <<1574, 13>>},
    {<<1570, -1>>, <<1021, -1>>, <<1021, 1>>, <<1021, 2>>, <<1021, 3>>,
     <<1021, 4>>, <<1021, 5>>, <<1021, 6>>},
    {<<1547, -1>>, <<1547, 1>>, <<1547, 2>>, <<1547, 3>>, <<1547, 4>>,
     <<1547, 5>>, <<1547, 6>>, <<1547, 7>>, <<1547, 8>>, <<1547, 9>>,
     <<1547, 10>>, <<1547, 11>>, <<1547, 12>>, <<1547, 13>>,
     <<1547, 14>>},
    {<<1543, -1>>, <<1543, 1>>, <<1543, 2>>, <<1543, 3>>, <<1543, 4>>},
    {<<1140, -1>>, <<1036, -1>>, <<1036, 1>>, <<1036, 2>>, <<1036, 3>>,
     <<1036, 4>>, <<1036, 5>>, <<1036, 6>>, <<1036, 7>>, <<1036, 8>>,
     <<1036, 9>>},
    {<<1057, -1>>, <<1556, -1>>, <<1003, -1>>, <<1003, 1>>, <<1003, 2>>,
     <<1003, 3>>, <<1003, 4>>, <<1003, 5>>, <<1003, 6>>, <<1003, 7>>,
     <<1003, 8>>},
    {<<1134, -1>>, <<1134, 1>>, <<1134, 2>>, <<1134, 3>>, <<1134, 4>>,
     <<1134, 5>>},
    {<<1053, -1>>, <<1053, 1>>, <<1053, 2>>, <<1053, 5>>, <<1053, 6>>},
    {<<1548, -1>>, <<1548, 1>>, <<1548, 2>>, <<1548, 3>>, <<1548, 4>>}>>

Patterns_authentication ==
  <<{<<1110, -1>>, <<1110, 1>>, <<1110, 2>>, <<1110, 3>>, <<1110, 4>>},
    {<<1187, -1>>, <<1040, -1>>, <<1056, -1>>, <<1056, 1>>, <<1056, 2>>,
     <<1056, 3>>, <<1056, 4>>},
    {<<1056, -1>>, <<1598, -1>>, <<1598, 1>>, <<1598, 2>>, <<1598, 3>>,
     <<1598, 4>>},
    {<<1111, -1>>, <<1040, -1>>, <<1557, -1>>, <<1557, 1>>, <<1557, 2>>},
    {<<1040, -1>>, <<1187, -1>>},
    {<<1557, -1>>, <<1557, 1>>, <<1557, 2>>, <<1040, -1>>},
    {<<1078, -1>>, <<1078, 1>>, <<1078, 2>>, <<1078, 3>>, <<1078, 4>>},
    {<<1556, -1>>, <<1550, -1>>, <<1550, 1>>, <<1550, 2>>, <<1550, 3>>,
     <<1550, 4>>},
    {<<1552, -1>>, <<1552, 1>>, <<1552, 2>>, <<1552, 5>>, <<1552, 7>>},
    {<<1621, -1>>, <<1111, -1>>, <<1056, 4>>}>>

Patterns_admin_activity ==
  <<{<<1098, -1>>, <<1098, 1>>, <<1098, 2>>, <<1098, 3>>, <<1098, 4>>,
     <<1098, 5>>},
    {<<1547, -1>>, <<1548, -1>>, <<1134, -1>>, <<1484, -1>>,
     <<1484, 1>>, <<1484, 2>>},
    {<<1556, -1>>, <<1537, -1>>, <<1538, -1>>, <<1526, -1>>,
     <<1526, 1>>, <<1199, -1>>},
    {<<1069, -1>>, <<1069, 1>>, <<1069, 2>>, <<1069, 3>>},
    {<<1482, -1>>, <<1087, -1>>, <<1087, 1>>, <<1087, 2>>, <<1087, 3>>,
     <<1087, 4>>},
    {<<1201, -1>>, <<1526, -1>>, <<1580, -1>>},
    {<<1556, -1>>, <<1098, -1>>, <<1556, 1>>, <<1556, 2>>, <<1556, 3>>,
     <<1556, 4>>, <<1556, 5>>}>>

Patterns_network_connection ==
  <<{<<1071, -1>>, <<1071, 1>>, <<1071, 2>>, <<1071, 3>>, <<1071, 4>>},
    {<<1008, -1>>, <<1001, -1>>, <<1568, -1>>, <<1568, 1>>, <<1568, 2>>,
     <<1568, 3>>},
    {<<1573, -1>>, <<1573, 1>>, <<1573, 2>>},
    {<<1090, -1>>, <<1090, 1>>, <<1090, 2>>, <<1090, 3>>, <<1090, 4>>},
    {<<1205, -1>>, <<1205, 1>>, <<1205, 2>>},
    {<<1041, -1>>, <<1048, -1>>, <<1048, 1>>, <<1048, 2>>, <<1048, 3>>},
    {<<1020, -1>>, <<1030, -1>>, <<1537, -1>>},
    {<<1567, -1>>, <<1567, 1>>, <<1567, 2>>},
    {<<1570, -1>>, <<1021, -1>>, <<1021, 1>>, <<1021, 2>>, <<1021, 4>>,
     <<1021, 5>>, <<1021, 6>>, <<1021, 7>>},
    {<<1046, -1>>, <<1040, -1>>, <<1087, -1>>, <<1010, -1>>,
     <<1217, -1>>, <<1580, -1>>, <<1538, -1>>, <<1526, -1>>,
     <<1592, -1>>, <<1590, -1>>, <<1598, -1>>, <<1597, -1>>}>>

Patterns_dns_query ==
  <<{<<1071, 4>>, <<1568, 2>>, <<1008, -1>>, <<1090, -1>>, <<1090, 1>>,
     <<1090, 2>>},
    {<<1172, -1>>, <<1008, -1>>, <<1568, -1>>},
    {<<1041, -1>>, <<1048, -1>>, <<1020, -1>>},
    {<<1046, -1>>, <<1087, -1>>, <<1217, -1>>, <<1580, -1>>,
     <<1526, -1>>}>>

Patterns_file_event ==
  <<{<<1486, -1>>, <<1565, -1>>, <<1565, 1>>, <<1565, 2>>, <<1565, 3>>,
     <<1561, -1>>, <<1561, 1>>, <<1561, 2>>, <<1487, -1>>},
    {<<1074, -1>>, <<1074, 1>>, <<1074, 2>>, <<1537, -1>>, <<1020, -1>>},
    {<<1543, -1>>, <<1547, -1>>, <<1037, -1>>, <<1547, 1>>,
     <<1547, 14>>, <<1136, -1>>, <<1543, 1>>, <<1543, 3>>},
    {<<1140, -1>>, <<1036, -1>>, <<1036, 1>>, <<1036, 5>>, <<1036, 9>>,
     <<1027, -1>>, <<1027, 1>>, <<1027, 2>>, <<1027, 3>>, <<1027, 4>>,
     <<1027, 5>>, <<1027, 6>>, <<1027, 7>>, <<1027, 8>>, <<1027, 9>>,
     <<1027, 10>>, <<1027, 11>>},
    {<<1564, -1>>, <<1564, 1>>, <<1564, 4>>, <<1564, 10>>, <<1564, 12>>},
    {<<1005, -1>>, <<1123, -1>>, <<1119, -1>>, <<1115, -1>>,
     <<1530, -1>>, <<1602, -1>>, <<1213, -1>>}>>

Patterns_image_load ==
  <<{<<1574, -1>>, <<1574, 1>>, <<1574, 2>>, <<1574, 4>>, <<1574, 8>>,
     <<1574, 10>>, <<1574, 11>>, <<1574, 12>>, <<1574, 13>>},
    {<<1547, -1>>, <<1547, 3>>, <<1103, -1>>},
    {<<1036, -1>>, <<1574, -1>>, <<1036, 5>>, <<1036, 9>>, <<1027, -1>>,
     <<1027, 1>>, <<1027, 2>>, <<1027, 3>>, <<1027, 4>>, <<1027, 5>>,
     <<1027, 6>>, <<1027, 7>>, <<1027, 8>>, <<1027, 9>>, <<1027, 10>>,
     <<1027, 11>>},
    {<<1547, 6>>, <<1547, 8>>}>>

techniqueToLogsource ==
  [c \in {"process_creation", "authentication", "admin_activity", "network_connection",
           "dns_query", "file_event", "image_load"} |->
     CASE c = "process_creation" -> Patterns_process_creation
       [] c = "authentication" -> Patterns_authentication
       [] c = "admin_activity" -> Patterns_admin_activity
       [] c = "network_connection" -> Patterns_network_connection
       [] c = "dns_query" -> Patterns_dns_query
       [] c = "file_event" -> Patterns_file_event
       [] c = "image_load" -> Patterns_image_load]

\* the text of a literal of the table: "T" + 4 digits [+ "." + 3 digits]
Digits(n, width) ==
  [i \in 1..width |-> DigitChars[((n \div (10 ^ (width - i))) % 10) + 1]]
LiteralText(lit) ==
  <<"T">> \o Digits(lit[1], 4) \o
  (IF lit[2] = -1 THEN <<>> ELSE <<".">> \o Digits(lit[2], 3))

\* pattern.test(techniqueId) for one regular expression of the table
PatternTest(pattern, techniqueId) ==
  \E lit \in pattern : Includes(techniqueId, LiteralText(lit))

\* property names every plain object inherits from Object.prototype
ObjectPrototypeKeys ==
  {"constructor", "toString", "valueOf", "hasOwnProperty", "__proto__",
   "isPrototypeOf", "propertyIsEnumerable", "toLocaleString"}

\* techniqueToLogsource[logsource.category]
TableLookup(category) ==
  IF category \in DOMAIN techniqueToLogsource
    THEN [kind |-> "array", patterns |-> techniqueToLogsource[category]]
  ELSE IF category \in ObjectPrototypeKeys
    THEN [kind |-> "inherited", patterns |-> <<>>]
    ELSE [kind |-> "undefined", patterns |-> <<>>]

\* a lookup that fails closed: a category without patterns matches nothing
isTechniqueRelevantFailClosed(techniqueId, logsource) ==
  LET patterns == TableLookup(logsource.category)
  IN  /\ patterns.kind = "array"
      /\ \E i \in DOMAIN patterns.patterns :
           PatternTest(patterns.patterns[i], techniqueId)

isTechniqueRelevantToLogsource(techniqueId, logsource) ==
  LET patterns == TableLookup(logsource.category)
  IN  IF patterns.kind # "array"
        THEN TRUE
        ELSE \E i \in DOMAIN patterns.patterns :
               PatternTest(patterns.patterns[i], techniqueId)

(***************************************************************************)
(* Detection objects: the own properties in insertion order, each          *)
(* [key, values, scalar]; key is the field and its modifier, scalar tells  *)
(* a single value from a list.                                             *)
(***************************************************************************)
DetKey(field, modifier) == [field |-> field, modifier |-> modifier]

\* detection[key] = values
DetSet(det, key, values, scalar) ==
  LET e == [key |-> key, values |-> values, scalar |-> scalar]
  IN  IF \E i \in DOMAIN det : det[i].key = key
        THEN [i \in DOMAIN det |-> IF det[i].key = key THEN e ELSE det[i]]
        ELSE Append(det, e)

Conditions(det) == [isNull |-> FALSE, det |-> det]

\* arr.slice(0, n)
Slice(arr, n) == SubSeq(arr, 1, IF Len(arr) < n THEN Len(arr) ELSE n)

\* arr.filter(P), for the positions in keep
RECURSIVE FilterSeq(_, _)
FilterSeq(arr, keep) ==
  IF arr = <<>> THEN <<>>
  ELSE LET init == FilterSeq(SubSeq(arr, 1, Len(arr) - 1),
                             keep \ {Len(arr)})
       IN  IF Len(arr) \in keep THEN Append(init, arr[Len(arr)]) ELSE init

buildDetectionFromFieldMapping(logsource) ==
  IF logsource.product = "windows"
    THEN <<[key |-> DetKey("Image", "contains"),
            values |-> <<"cmd.exe", "powershell.exe", "rundll32.exe">>, scalar |-> FALSE]>>
  ELSE IF logsource.product \in {"linux", "macos"}
    THEN <<[key |-> DetKey("exe", "contains"),
            values |-> <<"/bin/bash", "/bin/sh", "/usr/bin/python">>, scalar |-> FALSE]>>
    ELSE <<[key |-> DetKey("event", "contains"), values |-> <<"action">>, scalar |-> TRUE]>>

\* v.match(/^(C:\\Windows|system32|\\system32)/i)
StartsWithCI(v, prefix) ==
  Len(v) >= Len(prefix) /\ toLowerCase(SubSeq(v, 1, Len(prefix))) = toLowerCase(prefix)
IsSystemPath(v) ==
  \E prefix \in {StrCWindows, StrSystem32, StrBsSystem32} : StartsWithCI(v, prefix)

\* the two filters without the slice
FilteredValuesUncapped(values) ==
  FilterSeq(values, {i \in DOMAIN values :
                       /\ values[i].type = "string"
                       /\ values[i].s # <<>>
                       /\ ~IsSystemPath(values[i].s)})

\* values.filter(v => v && typeof v === 'string').filter(not a system path).slice(0, 3)
FilteredValues(values) ==
  Slice(FilterSeq(values, {i \in DOMAIN values :
                             /\ values[i].type = "string"
                             /\ values[i].s # <<>>
                             /\ ~IsSystemPath(values[i].s)}), 3)

\* the inner forEach over rule.detections.slice(0, 2)
RECURSIVE AddPatterns(_, _)
AddPatterns(det, patterns) ==
  IF patterns = <<>> THEN det
  ELSE LET pattern == Head(patterns)
           filteredValues == FilteredValues(pattern.values)
           det1 == IF pattern.field # "" /\ Len(pattern.values) > 0 /\ filteredValues # <<>>
                     THEN DetSet(det, DetKey(pattern.field, "contains"), filteredValues, FALSE)
                     ELSE det
       IN  AddPatterns(det1, Tail(patterns))

\* the outer forEach over matchingRules.slice(0, 3)
RECURSIVE AddRules(_, _)
AddRules(det, rules) ==
  IF rules = <<>> THEN det
  ELSE AddRules(AddPatterns(det, Slice(Head(rules).detections, 2)), Tail(rules))

buildDetectionFromSigmaPatterns(sigmaRules, logsource) ==
  LET matchingRules ==
        FilterSeq(sigmaRules,
                  {i \in DOMAIN sigmaRules :
                     /\ sigmaRules[i].product = logsource.product
                     /\ \/ sigmaRules[i].service = logsource.service
                        \/ sigmaRules[i].category = logsource.category})
      detection == AddRules(<<>>, Slice(matchingRules, 3))
  IN  IF matchingRules = <<>> \/ detection = <<>>
        THEN Conditions(buildDetectionFromFieldMapping(logsource))
        ELSE Conditions(detection)

\* fieldMapping[field] of logsource.fieldMappings[logsource.category]; "" is undefined
Mapped(logsource, field) ==
  LET hits == {e \in logsource.fm : e[1] = logsource.category /\ e[2] = field}
  IN  IF hits = {} THEN "" ELSE (CHOOSE e \in hits : TRUE)[3]

\* if (fieldMapping[field]) detection[`${fieldMapping[field]}|modifier`] = values
SetMapped(det, logsource, field, modifier, values, scalar) ==
  IF Mapped(logsource, field) # ""
    THEN DetSet(det, DetKey(Mapped(logsource, field), modifier), values, scalar)
    ELSE det

\* if (Object.keys(detection).length === 0) { the fallback assignments }
OrFallback(det, fallback) == IF det = <<>> THEN fallback ELSE det

ProcessCreationBlock(logsource) ==
  OrFallback(
    SetMapped(SetMapped(<<>>, logsource, "Image", "contains",
                        <<"cmd.exe", "powershell.exe", "bash", "sh">>, FALSE),
              logsource, "CommandLine", "contains", <<"-enc", "bypass", "encoded">>, FALSE),
    <<[key |-> DetKey("Image", "contains"), values |-> <<"cmd", "powershell">>,
       scalar |-> FALSE],
      [key |-> DetKey("CommandLine", "contains"), values |-> <<"encoded", "bypass">>,
       scalar |-> FALSE]>>)

AuthenticationBlock(logsource) ==
  OrFallback(
    SetMapped(SetMapped(<<>>, logsource, "User", "", <<"user@domain.com">>, TRUE),
              logsource, "IpAddress", "startswith", <<"192.168", "10.0">>, FALSE),
    <<[key |-> DetKey("User", "contains"), values |-> <<"admin">>, scalar |-> TRUE]>>)

AdminActivityBlock(logsource) ==
  OrFallback(
    SetMapped(SetMapped(<<>>, logsource, "Actor", "", <<"admin@example.com">>, TRUE),
              logsource, "EventType", "", <<"admin_role_assigned">>, TRUE),
    <<[key |-> DetKey("Actor", "contains"), values |-> <<"admin">>, scalar |-> TRUE]>>)

\* buildDetectionForTechnique of unnamed/part_005; the three category
\* blocks are guarded by tests of the same logsource.category, so at most
\* one of them runs, on the empty detection object
buildDetectionForTechnique(techniqueId, logsource) ==
  IF ~logsource.hasFm \/ logsource.category \notin logsource.fmCats
    THEN NullConditions
    ELSE Conditions(
           OrFallback(
             CASE logsource.category = "process_creation" -> ProcessCreationBlock(logsource)
               [] logsource.category = "authentication" -> AuthenticationBlock(logsource)
               [] logsource.category = "admin_activity" -> AdminActivityBlock(logsource)
               [] OTHER -> <<>>,
             <<[key |-> DetKey("Image", "contains"), values |-> <<"process">>,
                scalar |-> TRUE]>>))

(***************************************************************************)
(* Selection of the external rule for a log source.                        *)
(***************************************************************************)
\* the filter callback of findBestMatch (generate-sigma-rules.js)
StrictMatch(rule, logsource) ==
  /\ rule.product # "" /\ rule.product # "unknown"
  /\ rule.product = logsource.product
  /\ ~(rule.category # "" /\ rule.category # logsource.category)
  /\ rule.query # <<>> =>
       LET q == toLowerCase(rule.query)
       IN  /\ ~(logsource.product = "linux" /\
                  (Includes(q, StrGoogleWorkspace) \/ Includes(q, StrWindows)))
           /\ ~(logsource.product = "windows" /\ Includes(q, StrGoogleWorkspace))
           /\ ~(logsource.product = "macos" /\
                  (Includes(q, StrGoogleWorkspace) \/ Includes(q, StrWindows)))

\* matches.find(P): the first element at a position of hits, or null
NoRule == [source |-> "null", product |-> "", service |-> "", category |-> "", query |-> <<>>]
Find(arr, hits) ==
  IF hits = {} THEN NoRule
  ELSE arr[CHOOSE i \in hits : \A j \in hits : i <= j]

findBestMatch(rules, logsource) ==
  LET matches == FilterSeq(rules, {i \in DOMAIN rules : StrictMatch(rules[i], logsource)})
      serviceMatch == Find(matches, {i \in DOMAIN matches : matches[i].service = logsource.service})
      sigmaMatch == Find(matches, {i \in DOMAIN matches : matches[i].source = "sigma"})
      elasticMatch == Find(matches, {i \in DOMAIN matches : matches[i].source = "elastic"})
  IN  IF matches = <<>> THEN NoRule
      ELSE IF serviceMatch # NoRule THEN serviceMatch
      ELSE IF sigmaMatch # NoRule THEN sigmaMatch
      ELSE IF elasticMatch # NoRule THEN elasticMatch
      ELSE matches[1]

\* findMatchingRules of unnamed/part_002, on externalRules[techniqueId] || []
findMatchingRules(techRules, logsource) ==
  LET matches ==
        FilterSeq(techRules,
                  {i \in DOMAIN techRules :
                     /\ ~(/\ techRules[i].product # ""
                          /\ techRules[i].product # "unknown"
                          /\ techRules[i].product # logsource.product)
                     /\ ~(/\ techRules[i].category # ""
                          /\ techRules[i].category # logsource.category)})
      serviceMatches == FilterSeq(matches, {i \in DOMAIN matches :
                                              matches[i].service = logsource.service})
  IN  IF Len(serviceMatches) > 0 THEN serviceMatches ELSE matches

(***************************************************************************)
(* Step 2: the local optional inputs.                                      *)
(***************************************************************************)
\* organiser, external: external-rules-index.json, process.exit(1) in the
\* catch block; sigmapat: data/sigma-technique-map.json, a warning
LoadExternalRules ==
  /\ pc = "loadExternalRules"
  /\ IF script = "sigmapat"
       THEN /\ sigmaTechniqueMap' = env.sigmaMap.map
            /\ warnings' = IF env.sigmaMap.status = "unparsable"
                             THEN warnings \cup {"sigma-technique-map"} ELSE warnings
            /\ pc' = "fetchData"
            /\ UNCHANGED <<externalRules, exitStatus, exitCause>>
       ELSE IF env.index.status = "ok"
         THEN /\ externalRules' = env.index.rules
              /\ pc' = IF script = "organiser" THEN "prepareOutput" ELSE "fetchData"
              /\ UNCHANGED <<sigmaTechniqueMap, warnings, exitStatus, exitCause>>
         ELSE /\ Exit("1", "index")
              /\ UNCHANGED <<externalRules, sigmaTechniqueMap, warnings>>
  /\ UNCHANGED <<script, env, logsources, actorTechMap, techniqueMap, outDir,
                 outTouched, wi, ai, conditions, written, stats, fsFailures>>
  /\ UNCHANGED nonGenVars

(***************************************************************************)
(* Step 3: the fetched technique and actor data.                           *)
(***************************************************************************)
\* actor.techniques.forEach: validate is the /^T\d+(\.\d+)?$/ test, unique
\* the includes() test before push
RECURSIVE AddTechniques(_, _, _, _, _)
AddTechniques(m, name, techs, validate, unique) ==
  IF techs = <<>> THEN m
  ELSE LET t == Head(techs)
           m1 == IF validate /\ ~MatchesTNumber(t) THEN m
                 ELSE IF unique THEN MapPushUnique(m, t, name)
                 ELSE MapPushAll(m, t, <<name>>)
       IN  AddTechniques(m1, name, Tail(techs), validate, unique)

\* ttpIndex.actors.forEach
RECURSIVE AddActors(_, _, _, _)
AddActors(m, actors, validate, unique) ==
  IF actors = <<>> THEN m
  ELSE AddActors(AddTechniques(m, Head(actors).name, Head(actors).techniques,
                               validate, unique),
                 Tail(actors), validate, unique)

\* relationships.forEach
RECURSIVE AddRelationships(_, _)
AddRelationships(m, rels) ==
  IF rels = <<>> THEN m
  ELSE AddRelationships(MapPushUnique(m, Head(rels).tech, Head(rels).actor), Tail(rels))

\* Object.entries(map).forEach(([tech, actors]) => all[tech].push(...actors))
RECURSIVE MergeInto(_, _)
MergeInto(all, m) ==
  IF m = <<>> THEN all
  ELSE MergeInto(MapPushAll(all, Head(m).tech, Head(m).items), Tail(m))

\* allActorTechMap[tech] = [...new Set(allActorTechMap[tech])]
DedupAll(all) == [i \in DOMAIN all |-> [tech |-> all[i].tech, items |-> Dedup(all[i].items)]]

FetchActorData ==
  /\ pc = "fetchData"
  /\ LET ttpOk == env.ttp.status = "ok"
         mitreOk == env.mitre.status = "ok"
         ttpWarn == IF ttpOk THEN {} ELSE {"ttp-index"}
         mitreWarn == IF mitreOk THEN {} ELSE {"mitre"}
     IN  CASE script = "external" ->
                /\ actorTechMap' = IF ttpOk THEN AddActors(<<>>, env.ttp.actors, TRUE, TRUE)
                                   ELSE <<>>
                /\ warnings' = warnings \cup ttpWarn
                /\ pc' = "prepareOutput"
                /\ UNCHANGED <<techniqueMap, exitStatus, exitCause>>
           [] script \in {"sigmapat", "fieldmap"} ->
                LET mitreActorTechMap ==
                      IF mitreOk THEN AddRelationships(<<>>, env.mitre.rels) ELSE <<>>
                    ransomwareActorTechMap ==
                      IF ttpOk THEN AddActors(<<>>, env.ttp.actors, TRUE, TRUE) ELSE <<>>
                IN  /\ actorTechMap' =
                         DedupAll(MergeInto(MergeInto(<<>>, mitreActorTechMap),
                                            ransomwareActorTechMap))
                    /\ warnings' = warnings \cup ttpWarn \cup mitreWarn
                    /\ pc' = "prepareOutput"
                    /\ UNCHANGED <<techniqueMap, exitStatus, exitCause>>
           [] script = "keyword" ->
                /\ actorTechMap' = IF ttpOk THEN AddActors(<<>>, env.ttp.actors, FALSE, FALSE)
                                   ELSE <<>>
                /\ warnings' = warnings \cup ttpWarn
                /\ IF mitreOk
                     THEN /\ techniqueMap' = env.mitre.techniques
                          /\ pc' = "prepareOutput"
                          /\ UNCHANGED <<exitStatus, exitCause>>
                     ELSE /\ Exit("1", "mitre")
                          /\ UNCHANGED techniqueMap
  /\ UNCHANGED <<script, env, logsources, externalRules, sigmaTechniqueMap, outDir,
                 outTouched, wi, ai, conditions, written, stats, fsFailures>>
  /\ UNCHANGED nonGenVars

(***************************************************************************)
(* Step 4: reset the output directory.                                     *)
(***************************************************************************)
\* if (fs.existsSync(baseDir)) fs.rmSync(baseDir, { recursive: true });
\* fs.mkdirSync(baseDir, { recursive: true });
PrepareOutputDir ==
  /\ pc = "prepareOutput"
  /\ outDir' = [exists |-> TRUE, dirs |-> {}, files |-> {}]
  /\ outTouched' = TRUE
  /\ pc' = "emit"
  /\ UNCHANGED <<script, env, exitStatus, exitCause, logsources, externalRules,
                 sigmaTechniqueMap, actorTechMap, techniqueMap, wi, ai, conditions,
                 written, stats, warnings, fsFailures>>
  /\ UNCHANGED nonGenVars

(***************************************************************************)
(* Step 5: the emit loops.  One step is one iteration of the innermost     *)
(* loop body; wi numbers the (technique, log source) pairs in iteration    *)
(* order and ai the actors of the pair's technique.                        *)
(***************************************************************************)
TechEntries == IF script = "organiser" THEN externalRules ELSE actorTechMap

\* the organiser iterates log sources outside and techniques inside, and
\* creates the log source's directory even when the index is empty
InnerLen == IF script = "organiser"
              THEN (IF Len(TechEntries) = 0 THEN 1 ELSE Len(TechEntries))
              ELSE Len(logsources)
NumPairs == IF script = "organiser"
              THEN Len(logsources) * InnerLen
              ELSE Len(TechEntries) * Len(logsources)
OuterIdx(p) == ((p - 1) \div InnerLen) + 1
InnerIdx(p) == ((p - 1) % InnerLen) + 1

PairTech(p) == IF script = "organiser" THEN TechEntries[InnerIdx(p)]
               ELSE TechEntries[OuterIdx(p)]
PairLs(p) == IF script = "organiser" THEN logsources[OuterIdx(p)]
             ELSE logsources[InnerIdx(p)]

\* actor.toLowerCase().replace(/\s+/g, '_')
SanitizeActor(actor) == ReplaceSpaces(toLowerCase(actor))

\* the directory of the artifact below baseDir
ActorDir(sc, logsource, actor) ==
  CASE sc = "external" ->
         [product |-> logsource.product, service |-> logsource.service,
          actor |-> SanitizeActor(actor)]
    [] sc \in {"sigmapat", "fieldmap"} ->
         [product |-> logsource.product, service |-> logsource.service, actor |-> actor]
    [] sc = "keyword" ->
         [product |-> logsource.product, service |-> "", actor |-> actor]
    [] sc = "organiser" ->
         [product |-> logsource.product, service |-> logsource.service, actor |-> <<>>]

\* the file name of the artifact
FileName(sc, techniqueId) ==
  IF sc \in {"organiser", "external"}
    THEN toLowerCase(techniqueId) \o YmlSuffix
    ELSE techniqueId \o YmlSuffix

FilePath(dir, file) ==
  [product |-> dir.product, service |-> dir.service, actor |-> dir.actor, file |-> file]

(***************************************************************************)
(* buildDetectionForTechnique of the keyword variant (unnamed/part_004):    *)
(* the conditions are chosen by keywords of the lower-cased technique name. *)
(***************************************************************************)
\* the keywords techLower.includes(...) looks for
Keyword(w) ==
  CASE w = "powershell" -> <<"p","o","w","e","r","s","h","e","l","l">>
    [] w = "command" -> <<"c","o","m","m","a","n","d">>
    [] w = "script" -> <<"s","c","r","i","p","t">>
    [] w = "encryption" -> <<"e","n","c","r","y","p","t","i","o","n">>
    [] w = "encrypt" -> <<"e","n","c","r","y","p","t">>
    [] w = "credential" -> <<"c","r","e","d","e","n","t","i","a","l">>
    [] w = "password" -> <<"p","a","s","s","w","o","r","d">>
    [] w = "dumping" -> <<"d","u","m","p","i","n","g">>
    [] w = "lateral" -> <<"l","a","t","e","r","a","l">>
    [] w = "psexec" -> <<"p","s","e","x","e","c">>
    [] w = "wmiexec" -> <<"w","m","i","e","x","e","c">>
    [] w = "persistence" -> <<"p","e","r","s","i","s","t","e","n","c","e">>
    [] w = "registry" -> <<"r","e","g","i","s","t","r","y">>
    [] w = "account" -> <<"a","c","c","o","u","n","t">>
    [] w = "login" -> <<"l","o","g","i","n">>
    [] w = "logon" -> <<"l","o","g","o","n">>
    [] w = "malware" -> <<"m","a","l","w","a","r","e">>
    [] w = "detect" -> <<"d","e","t","e","c","t">>
    [] w = "execution" -> <<"e","x","e","c","u","t","i","o","n">>
    [] w = "sudo" -> <<"s","u","d","o">>
    [] w = "privilege" -> <<"p","r","i","v","i","l","e","g","e">>
    [] w = "phishing" -> <<"p","h","i","s","h","i","n","g">>
    [] w = "attachment" -> <<"a","t","t","a","c","h","m","e","n","t">>
    [] w = "sign" -> <<"s","i","g","n">>
    [] w = "email" -> <<"e","m","a","i","l">>

\* techLower.includes(w) for one of the words ws
IncludesAny(techLower, ws) == \E w \in ws : Includes(techLower, Keyword(w))

\* an object literal { 'field|modifier': values, ... }
DetEntry(field, modifier, values, scalar) ==
  [key |-> DetKey(field, modifier), values |-> values, scalar |-> scalar]

Keyword_windows_sysmon(techLower) ==
  IF IncludesAny(techLower, {"powershell", "command", "script"})
    THEN <<DetEntry("Image", "endswith", <<"powershell.exe", "pwsh.exe", "cmd.exe">>, FALSE),
             DetEntry("CommandLine", "contains", <<"-EncodedCommand", "-enc", "bypass", "IEX">>, FALSE)>>
  ELSE
  IF IncludesAny(techLower, {"encryption", "encrypt"})
    THEN <<DetEntry("Image", "endswith", <<"cipher.exe", "certutil.exe", "openssl.exe">>, FALSE),
             DetEntry("CommandLine", "contains", <<"/e", "/s", "-encrypt", "-aes">>, FALSE)>>
  ELSE
  IF IncludesAny(techLower, {"credential", "password", "dumping"})
    THEN <<DetEntry("Image", "endswith", <<"lsass.exe", "mimikatz.exe", "procdump.exe">>, FALSE),
             DetEntry("CommandLine", "contains", <<"/prot:off", "sekurlsa", "logonpasswords">>, FALSE)>>
  ELSE
  IF IncludesAny(techLower, {"lateral", "psexec", "wmiexec"})
    THEN <<DetEntry("Image", "endswith", <<"svchost.exe", "wmiprvse.exe", "rundll32.exe">>, FALSE),
             DetEntry("CommandLine", "contains", <<"\\\\", "wmic", "psexec">>, FALSE)>>
  ELSE
  IF IncludesAny(techLower, {"persistence", "registry"})
    THEN <<DetEntry("Image", "endswith", <<"reg.exe", "regedit.exe", "powershell.exe">>, FALSE),
             DetEntry("CommandLine", "contains", <<"add", "run", "startup">>, FALSE)>>
  ELSE <<>>

Keyword_windows_security(techLower) ==
  IF IncludesAny(techLower, {"account", "login", "credential"})
    THEN <<DetEntry("EventID", "", <<"4624", "4625", "4648">>, FALSE),
             DetEntry("AccountName", "endswith", <<"$", "SYSTEM", "LOCAL SERVICE">>, FALSE)>>
  ELSE
  IF IncludesAny(techLower, {"logon"})
    THEN <<DetEntry("EventID", "", <<"4624", "4768", "4769", "4771">>, FALSE),
             DetEntry("LogonType", "", <<"2", "3", "10">>, FALSE)>>
  ELSE <<>>

Keyword_windows_defender(techLower) ==
  IF IncludesAny(techLower, {"malware", "detect"})
    THEN <<DetEntry("ActionType", "", <<"Detected", "Blocked", "Remediated">>, FALSE),
             DetEntry("ThreatName", "contains", <<"Malware", "PUA", "Trojan">>, FALSE)>>
  ELSE <<>>

Keyword_linux_auditd(techLower) ==
  IF IncludesAny(techLower, {"powershell", "command", "execution"})
    THEN <<DetEntry("Image", "endswith", <<"/bash", "/sh", "/pwsh", "/python">>, FALSE),
             DetEntry("CommandLine", "contains", <<"bash", "sh", "python", "perl">>, FALSE)>>
  ELSE
  IF IncludesAny(techLower, {"encryption", "encrypt"})
    THEN <<DetEntry("Image", "endswith", <<"/openssl", "/gpg", "/cryptsetup">>, FALSE),
             DetEntry("CommandLine", "contains", <<"enc", "-e", "-encrypt">>, FALSE)>>
  ELSE
  IF IncludesAny(techLower, {"sudo", "privilege"})
    THEN <<DetEntry("Image", "endswith", <<"/sudo", "/su">>, FALSE),
             DetEntry("CommandLine", "contains", <<"sudo", "su -">>, FALSE)>>
  ELSE <<>>

Keyword_macos_unified_logging(techLower) ==
  IF IncludesAny(techLower, {"command", "execution"})
    THEN <<DetEntry("ProcessName", "endswith", <<"/bash", "/sh", "/zsh">>, FALSE),
             DetEntry("EventMessage", "contains", <<"executed", "launch">>, FALSE)>>
  ELSE <<>>

Keyword_m365_entra_id(techLower) ==
  IF IncludesAny(techLower, {"phishing", "attachment"})
    THEN <<DetEntry("AttachmentExtension", "in", <<"exe", "dll", "zip", "iso", "scr">>, FALSE)>>
  ELSE
  IF IncludesAny(techLower, {"credential", "password", "sign"})
    THEN <<DetEntry("RiskLevel", "", <<"high">>, TRUE),
             DetEntry("AuthenticationDetails", "contains", <<"failed", "suspicious">>, FALSE)>>
  ELSE <<>>

Keyword_google_workspace(techLower) ==
  IF IncludesAny(techLower, {"phishing", "email"})
    THEN <<DetEntry("email_subject", "contains", <<"invoice", "urgent", "confirm">>, FALSE),
             DetEntry("email_from", "endswith", <<".ru", ".cn", ".tk">>, FALSE)>>
  ELSE <<>>

\* the generic fallback
KeywordFallback ==
  <<DetEntry("EventID", "contains", <<"4688">>, TRUE),
    DetEntry("Image", "contains", <<"process">>, TRUE)>>

\* the keyword blocks of the log source's product and service, in source order
KeywordBlock(techLower, logsource) ==
  CASE logsource.product = "windows" /\ logsource.service = "sysmon" -> Keyword_windows_sysmon(techLower)
    [] logsource.product = "windows" /\ logsource.service = "security" -> Keyword_windows_security(techLower)
    [] logsource.product = "windows" /\ logsource.service = "defender" -> Keyword_windows_defender(techLower)
    [] logsource.product = "linux" /\ logsource.service = "auditd" -> Keyword_linux_auditd(techLower)
    [] logsource.product = "macos" /\ logsource.service = "unified_logging" -> Keyword_macos_unified_logging(techLower)
    [] logsource.product = "m365" /\ logsource.service = "entra_id" -> Keyword_m365_entra_id(techLower)
    [] logsource.product = "google" /\ logsource.service = "workspace" -> Keyword_google_workspace(techLower)
    [] OTHER -> <<>>

buildDetectionForTechniqueKeyword(techName, logsource) ==
  Conditions(OrFallback(KeywordBlock(toLowerCase(techName), logsource), KeywordFallback))

\* techniqueMap[techniqueId].name: the names the MITRE data gives the techniques
TechniqueName(techniqueId) ==
  CASE techniqueId = T1059_001 -> <<"P","o","w","e","r","S","h","e","l","l">>
    [] techniqueId = T1486 -> <<"D","a","t","a"," ","E","n","c","r","y","p","t","e","d"," ","f","o","r"," ","I","m","p","a","c","t">>
    [] techniqueId = T123 -> <<"V","a","l","i","d"," ","A","c","c","o","u","n","t","s">>
    [] OTHER -> <<"M","a","s","q","u","e","r","a","d","i","n","g">>

\* the condition set the pair's synthesis step returns
Synthesize(sc, techniqueId, logsource) ==
  CASE sc = "sigmapat" ->
         buildDetectionFromSigmaPatterns(MapGet(sigmaTechniqueMap, techniqueId), logsource)
    [] sc = "fieldmap" -> buildDetectionForTechnique(techniqueId, logsource)
    [] sc = "keyword" ->
         buildDetectionForTechniqueKeyword(TechniqueName(techniqueId), logsource)
    [] OTHER -> conditions

\* the early returns without the relevance test: every pair with a
\* detection goes on to the actor loop
PairSkippedIgnoringRelevance(sc, techniqueId, logsource) ==
  CASE sc = "sigmapat" ->
         \/ Synthesize(sc, techniqueId, logsource).isNull
         \/ Synthesize(sc, techniqueId, logsource).det = <<>>
    [] sc = "fieldmap" -> Synthesize(sc, techniqueId, logsource).isNull
    [] sc = "keyword" -> techniqueId \notin techniqueMap
    [] OTHER -> FALSE

\* the early returns before the actor loop
PairSkipped(sc, techniqueId, logsource) ==
  CASE sc = "sigmapat" ->
         \/ ~isTechniqueRelevantToLogsource(techniqueId, logsource)
         \/ Synthesize(sc, techniqueId, logsource).isNull
         \/ Synthesize(sc, techniqueId, logsource).det = <<>>
    [] sc = "fieldmap" -> Synthesize(sc, techniqueId, logsource).isNull
    [] sc = "keyword" -> techniqueId \notin techniqueMap
    [] OTHER -> FALSE

\* the technique id test inside the actor loop
TechniqueValid(sc, techniqueId) ==
  sc \in {"sigmapat", "fieldmap"} => MatchesTNumber(techniqueId)

Bump(st, field) == [st EXCEPT ![field] = @ + 1]

NextActor(numActors) ==
  IF ai < numActors
    THEN ai' = ai + 1 /\ wi' = wi
    ELSE ai' = 1 /\ wi' = wi + 1

EmitSkipPair ==
  /\ pc = "emit"
  /\ script # "organiser"
  /\ wi <= NumPairs
  /\ LET t == PairTech(wi).tech
         ls == PairLs(wi)
     IN  /\ PairSkipped(script, t, ls)
         /\ conditions' =
              IF script = "sigmapat" /\ ~isTechniqueRelevantToLogsource(t, ls)
                THEN conditions ELSE Synthesize(script, t, ls)
         /\ stats' = IF script = "fieldmap" THEN Bump(stats, "skippedNoConditions")
                     ELSE stats
  /\ wi' = wi + 1
  /\ ai' = 1
  /\ UNCHANGED <<script, env, pc, exitStatus, exitCause, logsources, externalRules,
                 sigmaTechniqueMap, actorTechMap, techniqueMap, outDir, outTouched,
                 written, warnings, fsFailures>>
  /\ UNCHANGED nonGenVars

EmitSkipActor ==
  /\ pc = "emit"
  /\ script # "organiser"
  /\ wi <= NumPairs
  /\ LET t == PairTech(wi).tech
         ls == PairLs(wi)
     IN  /\ ~PairSkipped(script, t, ls)
         /\ ~TechniqueValid(script, t)
         /\ conditions' = Synthesize(script, t, ls)
         /\ stats' = IF script = "fieldmap" THEN Bump(stats, "skippedInvalidTech")
                     ELSE stats
         /\ NextActor(Len(PairTech(wi).items))
  /\ UNCHANGED <<script, env, pc, exitStatus, exitCause, logsources, externalRules,
                 sigmaTechniqueMap, actorTechMap, techniqueMap, outDir, outTouched,
                 written, warnings, fsFailures>>
  /\ UNCHANGED nonGenVars

\* the results a filesystem call of this step can have
FsOutcomes(canMkdir, canWrite) ==
  {"ok"} \cup
  (IF fsFailures < MaxFsFailures /\ canMkdir THEN {"mkdirFail"} ELSE {}) \cup
  (IF fsFailures < MaxFsFailures /\ canWrite THEN {"writeFail"} ELSE {})

\* generateSigmaRule, mkdirSync when the directory is absent, writeFileSync
EmitWrite ==
  /\ pc = "emit"
  /\ script # "organiser"
  /\ wi <= NumPairs
  /\ LET t == PairTech(wi).tech
         ls == PairLs(wi)
         actors == PairTech(wi).items
         actor == actors[ai]
         dir == ActorDir(script, ls, actor)
         path == FilePath(dir, FileName(script, t))
         bestRule == LET m == findMatchingRules(MapGet(externalRules, t), ls)
                     IN  IF m = <<>> THEN NoRule ELSE m[1]
         caught == script \in {"sigmapat", "fieldmap"}
     IN  /\ ~PairSkipped(script, t, ls)
         /\ TechniqueValid(script, t)
         /\ conditions' = Synthesize(script, t, ls)
         /\ \E outcome \in FsOutcomes(dir \notin outDir.dirs, TRUE) :
              CASE outcome = "ok" ->
                     /\ outDir' = [outDir EXCEPT !.dirs = @ \cup {dir},
                                                 !.files = @ \cup {path}]
                     /\ written' = written \cup
                                     {[path |-> path, tech |-> t, ls |-> LsKey(ls),
                                       actor |-> actor,
                                       conditions |-> Synthesize(script, t, ls),
                                       condition |-> "selection"]}
                     /\ stats' =
                          IF script = "external"
                            THEN Bump(Bump(stats, "total"),
                                      IF bestRule # NoRule /\ bestRule.query # <<>>
                                        THEN "withDetection" ELSE "placeholder")
                            ELSE Bump(stats, "total")
                     /\ NextActor(Len(actors))
                     /\ UNCHANGED <<pc, exitStatus, exitCause, warnings, fsFailures>>
                [] outcome = "mkdirFail" ->
                     /\ fsFailures' = fsFailures + 1
                     /\ Exit("1", "fs")
                     /\ UNCHANGED <<outDir, written, stats, warnings, wi, ai>>
                [] outcome = "writeFail" ->
                     /\ fsFailures' = fsFailures + 1
                     /\ outDir' = [outDir EXCEPT !.dirs = @ \cup {dir}]
                     /\ IF caught
                          THEN /\ warnings' = warnings \cup {"write"}
                               /\ stats' = IF script = "fieldmap"
                                             THEN Bump(stats, "skippedWriteError")
                                             ELSE stats
                               /\ NextActor(Len(actors))
                               /\ UNCHANGED <<pc, exitStatus, exitCause, written>>
                          ELSE /\ Exit("1", "fs")
                               /\ UNCHANGED <<written, stats, warnings, wi, ai>>
  /\ UNCHANGED <<script, env, logsources, externalRules, sigmaTechniqueMap,
                 actorTechMap, techniqueMap, outTouched>>
  /\ UNCHANGED nonGenVars

\* the loop body of generate-sigma-rules.js: mkdirSync of the log source's
\* directory before its first technique, then findBestMatch and, on a
\* match, writeFileSync; none of the calls is inside a try block
EmitOrganise ==
  /\ pc = "emit"
  /\ script = "organiser"
  /\ wi <= NumPairs
  /\ LET ls == PairLs(wi)
         hasTech == Len(TechEntries) > 0
         first == InnerIdx(wi) = 1
         dir == ActorDir(script, ls, <<>>)
         match == IF hasTech THEN findBestMatch(PairTech(wi).items, ls) ELSE NoRule
         t == IF hasTech THEN PairTech(wi).tech ELSE <<>>
         path == FilePath(dir, FileName(script, t))
     IN  \E outcome \in FsOutcomes(first /\ dir \notin outDir.dirs, match # NoRule) :
           CASE outcome = "ok" ->
                  /\ outDir' = [outDir EXCEPT
                                  !.dirs = IF first THEN @ \cup {dir} ELSE @,
                                  !.files = IF match # NoRule THEN @ \cup {path} ELSE @]
                  /\ written' = IF match # NoRule
                                  THEN written \cup {[path |-> path, tech |-> t,
                                                      ls |-> LsKey(ls), actor |-> <<>>]}
                                  ELSE written
                  /\ stats' = IF match # NoRule THEN Bump(stats, "total") ELSE stats
                  /\ wi' = wi + 1
                  /\ UNCHANGED <<pc, exitStatus, exitCause, fsFailures>>
             [] outcome \in {"mkdirFail", "writeFail"} ->
                  /\ fsFailures' = fsFailures + 1
                  /\ outDir' = [outDir EXCEPT
                                  !.dirs = IF first /\ outcome = "writeFail"
                                             THEN @ \cup {dir} ELSE @]
                  /\ Exit("1", "fs")
                  /\ UNCHANGED <<written, stats, wi>>
  /\ UNCHANGED <<script, env, logsources, externalRules, sigmaTechniqueMap,
                 actorTechMap, techniqueMap, outTouched, ai, conditions, warnings>>
  /\ UNCHANGED nonGenVars

\* the loops are over: the summary is printed and the process ends
EmitFinish ==
  /\ pc = "emit"
  /\ wi > NumPairs
  /\ pc' = "done"
  /\ exitStatus' = "0"
  /\ UNCHANGED <<script, env, exitCause, logsources, externalRules,
                 sigmaTechniqueMap, actorTechMap, techniqueMap, outDir, outTouched,
                 wi, ai, conditions, written, stats, warnings, fsFailures>>
  /\ UNCHANGED nonGenVars

GenNext ==
  \/ LoadLogsources
  \/ LoadExternalRules
  \/ FetchActorData
  \/ PrepareOutputDir
  \/ EmitSkipPair
  \/ EmitSkipActor
  \/ EmitWrite
  \/ EmitOrganise
  \/ EmitFinish


(***************************************************************************)
(* Idle values: the state of a program that a specification does not run.  *)
(***************************************************************************)
GenIdle ==
  /\ script = "none"
  /\ env = [catalogue |-> [status |-> "unused", logsources |-> <<>>], index |-> NoIndex,
            sigmaMap |-> NoSigmaMap, ttp |-> NoTtp, mitre |-> NoMitre,
            outDir |-> [exists |-> FALSE, dirs |-> {}, files |-> {}]]
  /\ pc = "idle"
  /\ exitStatus = "running"
  /\ exitCause = "none"
  /\ logsources = <<>>
  /\ externalRules = <<>>
  /\ sigmaTechniqueMap = <<>>
  /\ actorTechMap = <<>>
  /\ techniqueMap = {}
  /\ outDir = env.outDir
  /\ outTouched = FALSE
  /\ wi = 1
  /\ ai = 1
  /\ conditions = NullConditions
  /\ written = {}
  /\ stats = ZeroStats
  /\ warnings = {}
  /\ fsFailures = 0

NoFile == [status |-> "missing", hasKey |-> FALSE, logsources |-> <<>>]
NoObject == [isNull |-> TRUE, hasKey |-> FALSE, logsources |-> <<>>]

CatIdle ==
  /\ catPc = "idle"
  /\ catEnv = [token |-> FALSE, answers |-> <<>>]
  /\ catFile = NoFile
  /\ existingLogsources = NoObject
  /\ newLogsources = <<>>
  /\ skipped = 0
  /\ loaded = <<>>

RelIdle ==
  /\ relPc = "idle"
  /\ relTechnique = <<>>
  /\ relLogsource = [category |-> ""]
  /\ relResult = FALSE

ParseIdle ==
  /\ parsePc = "idle"
  /\ query = <<>>
  /\ source = ""
  /\ lines = <<>>
  /\ lineIdx = 1
  /\ detectionObj = <<>>
  /\ parsed = [isNull |-> TRUE, det |-> <<>>]

UuidIdle ==
  /\ today = 0
  /\ yamls = {}

RandIdle ==
  /\ rndNum = 0
  /\ rndStep = 0
  /\ uuids = <<>>

FetchIdle ==
  /\ fetchFn = "none"
  /\ fetchPlans = <<>>
  /\ fetchFatal = FALSE
  /\ fetchIdx = 1
  /\ fetchPc = "idle"
  /\ promise = "none"
  /\ received = 0
  /\ ended = FALSE
  /\ errored = FALSE
  /\ destroyed = FALSE
  /\ timerArmed = FALSE

MergeIdle ==
  /\ mergePc = "idle"
  /\ elasticRuleSet = <<>>
  /\ sigmaRuleSet = <<>>
  /\ splunkRuleSet = <<>>
  /\ arrays = <<>>
  /\ fetchedRuleSets = <<>>
  /\ allRules = <<>>

MatchIdle ==
  /\ matchFn = "none"
  /\ matchRules = <<>>
  /\ matchLogsource = [product |-> "", service |-> "", category |-> ""]
  /\ matchPc = "idle"
  /\ matchSurvivors = <<>>
  /\ matchChosen = NoRule

ElasticIdle ==
  /\ elFn = "none"
  /\ elQuery = <<>>
  /\ elPc = "idle"
  /\ elStrict = <<>>
  /\ elFields = <<>>

RuleIdle ==
  /\ ruleArg = [isNull |-> TRUE]
  /\ ruleLogsource = [product |-> "", service |-> "", category |-> ""]
  /\ rulePc = "idle"
  /\ ruleDetection = [isNull |-> TRUE, det |-> <<>>]
  /\ ruleYAML = <<>>
  /\ ruleStats = [totalRules |-> 0, rulesWithDetection |-> 0, rulesPlaceholder |-> 0]

PatIdle ==
  /\ patLogsources = <<>>
  /\ patTi = 0
  /\ patLi = 0
  /\ patPc = "idle"
  /\ patWritten = {}
  /\ patOutDir = [exists |-> FALSE, files |-> {}]

FmtIdle ==
  /\ fmtQuery = <<>>
  /\ fmtPc = "idle"
  /\ fmtOutput = <<>>

HashIdle ==
  /\ hashStr = <<>>
  /\ hashI = 0
  /\ hashVal = [hi |-> 0, lo |-> 0]
  /\ hashPc = "idle"
  /\ hashWrapped = FALSE
  /\ hashId = <<>>

ThirdIdle == ElasticIdle /\ RuleIdle /\ PatIdle /\ FmtIdle /\ HashIdle

LaterIdle == RandIdle /\ FetchIdle /\ MergeIdle /\ MatchIdle /\ ThirdIdle

priorVars == <<genVars, catVars, relVars, parseVars, uuidVars,
               randVars, fetchVars, mergeVars, matchVars>>
PriorIdle ==
  /\ GenIdle /\ CatIdle /\ RelIdle /\ ParseIdle /\ UuidIdle
  /\ RandIdle /\ FetchIdle /\ MergeIdle /\ MatchIdle

vars == <<genVars, catVars, relVars, parseVars, uuidVars, laterVars>>

Init == GenInit /\ CatIdle /\ RelIdle /\ ParseIdle /\ UuidIdle /\ LaterIdle

Next == GenNext

Spec == Init /\ [][Next]_vars

TypeOK ==
  /\ script \in Scripts
  /\ pc \in {"loadLogsources", "loadExternalRules", "fetchData", "prepareOutput",
             "emit", "done", "exited"}
  /\ exitStatus \in {"running", "0", "1"}
  /\ exitCause \in {"none", "catalogue", "index", "mitre", "fs"}
  /\ fsFailures \in 0..MaxFsFailures
  /\ wi \in 1..(NumPairs + 1)

(***************************************************************************)
(* Properties of a generator run.                                          *)
(***************************************************************************)
DistinctKeys(list) ==
  \A i, j \in DOMAIN list : LsKey(list[i]) = LsKey(list[j]) => i = j

\* C1: in the variants that synthesise conditions, the synthesis step
\* returns a non-null, non-empty condition set for every technique and
\* every log source of the run, so no (technique, log source) pair is
\* skipped for want of conditions.
C1_SynthesisNeverNull ==
  (pc = "emit" /\ script \in {"sigmapat", "fieldmap"}) =>
    /\ \A p \in 1..NumPairs :
         LET c == Synthesize(script, PairTech(p).tech, PairLs(p))
         IN  ~c.isNull /\ c.det # <<>>
    /\ stats.skippedNoConditions = 0

\* C2: for a catalogue with pairwise distinct (product, service, category)
\* keys, two files written in one run for distinct (technique, log source,
\* actor) triples never have the same path.
C2_DistinctTriplesDistinctPaths ==
  DistinctKeys(logsources) =>
    \A a, b \in written :
      a.path = b.path => (a.tech = b.tech /\ a.ls = b.ls /\ a.actor = b.actor)

\* C3: when the catalogue loads and no filesystem call fails, a failure to
\* read the external-rule index or to fetch the technique/actor data never
\* ends the run early: the run does not exit before the emit stage is over.
C3_OptionalSourceFailureNeverAborts ==
  (/\ env.catalogue.status = "ok"
   /\ fsFailures = 0
   /\ \/ env.index.status = "missing"
      \/ env.ttp.status = "fail"
      \/ env.mitre.status = "fail")
  => (pc # "exited" /\ exitStatus # "1")

MatchesStrictPattern(s) ==
  /\ Len(s) \in {5, 9}
  /\ s[1] = "T"
  /\ \A i \in 2..5 : IsDigit(s[i])
  /\ Len(s) = 9 => (s[6] = "." /\ \A i \in 7..9 : IsDigit(s[i]))

\* C5: no file is ever written for a technique identifier that does not
\* match T + four digits (+ dot + three digits).
C5_MalformedIdsSkipped ==
  \A w \in written : MatchesStrictPattern(w.tech)

\* C6: a failed filesystem call for one artifact never ends the run: after
\* a failure the emit loop is still running or has finished normally.
C6_WriteFailureNeverAborts ==
  fsFailures > 0 => (pc \in {"emit", "done"} /\ exitStatus # "1")

(***************************************************************************)
(* scripts/generate-logsources.js: the catalogue generator.                *)
(***************************************************************************)
MaxProducts == 3

\* generateLogsourcesFromDocs: products
products ==
  <<"Windows Event Log Security", "Sysmon", "Linux auditd", "macOS Unified Logging",
    "Microsoft Defender", "Microsoft Entra ID", "Google Workspace",
    "CrowdStrike Falcon", "SentinelOne", "Elastic EDR">>

\* the products the model asks about
NumProducts == IF MaxProducts < Len(products) THEN MaxProducts ELSE Len(products)

\* what the model's answer for one product can be: an object with whatever
\* product, service and category the answer names; no JSON object in the
\* answer (fetchAndParseLogsource resolves null); a rejected request
EntrySysmon ==
  [name |-> "Sysmon", product |-> "windows", service |-> "sysmon",
   category |-> "process_creation"]
EntrySysmonAgain ==
  [name |-> "Windows Event Log Security", product |-> "windows", service |-> "sysmon",
   category |-> "process_creation"]
EntryAuditd ==
  [name |-> "Linux auditd", product |-> "linux", service |-> "auditd",
   category |-> "process_creation"]
Answers ==
  {[kind |-> "null", logsource |-> EntrySysmon],
   [kind |-> "error", logsource |-> EntrySysmon]} \cup
  {[kind |-> "object", logsource |-> e] : e \in {EntrySysmon, EntrySysmonAgain, EntryAuditd}}

RECURSIVE SeqsOfLen(_, _)
SeqsOfLen(S, n) ==
  IF n = 0 THEN {<<>>}
  ELSE {Append(s, x) : s \in SeqsOfLen(S, n - 1), x \in S}

\* logsources.json before the run
ExistingFiles ==
  {NoFile,
   [status |-> "unparsable", hasKey |-> FALSE, logsources |-> <<>>],
   [status |-> "ok", hasKey |-> FALSE, logsources |-> <<>>],
   [status |-> "ok", hasKey |-> TRUE, logsources |-> <<>>],
   [status |-> "ok", hasKey |-> TRUE, logsources |-> <<EntryAuditd>>]}

CatInit ==
  /\ catPc = "main"
  /\ \E token \in BOOLEAN, answers \in SeqsOfLen(Answers, NumProducts) :
       catEnv = [token |-> token, answers |-> answers]
  /\ catFile \in ExistingFiles
  /\ existingLogsources = NoObject
  /\ newLogsources = <<>>
  /\ skipped = 0
  /\ loaded = <<>>

\* loadExistingLogsources
loadExistingLogsources(file) ==
  IF file.status = "ok"
    THEN [isNull |-> FALSE, hasKey |-> file.hasKey, logsources |-> file.logsources]
    ELSE NoObject

\* main: the token test and the load of the existing catalogue
CatStart ==
  /\ catPc = "main"
  /\ IF ~catEnv.token
       THEN /\ catPc' = "exit1"
            /\ UNCHANGED existingLogsources
       ELSE /\ existingLogsources' = loadExistingLogsources(catFile)
            /\ catPc' = "generate"
  /\ UNCHANGED <<catEnv, catFile, newLogsources, skipped, loaded>>
  /\ UNCHANGED <<genVars, relVars, parseVars, uuidVars, laterVars>>

\* generateLogsourcesFromDocs: one iteration of the loop over products
CatProcessProduct ==
  /\ catPc = "generate"
  /\ Len(newLogsources) + skipped < NumProducts
  /\ LET answer == catEnv.answers[Len(newLogsources) + skipped + 1]
     IN  IF answer.kind = "object"
           THEN /\ newLogsources' = Append(newLogsources, answer.logsource)
                /\ UNCHANGED skipped
           ELSE /\ skipped' = skipped + 1
                /\ UNCHANGED newLogsources
  /\ UNCHANGED <<catPc, catEnv, catFile, existingLogsources, loaded>>
  /\ UNCHANGED <<genVars, relVars, parseVars, uuidVars, laterVars>>

\* existingLogsources?.logsources || []
ExistingList(obj) == IF ~obj.isNull /\ obj.hasKey THEN obj.logsources ELSE <<>>

\* main after the loop without the test for an empty list: whatever was
\* generated is saved
CatSaveAlways ==
  /\ catPc = "generate"
  /\ Len(newLogsources) + skipped = NumProducts
  /\ \/ /\ catFile' = [status |-> "ok", hasKey |-> TRUE, logsources |-> newLogsources]
        /\ catPc' = "complete"
     \/ catPc' = "exit1" /\ UNCHANGED catFile
  /\ UNCHANGED <<catEnv, existingLogsources, newLogsources, skipped, loaded>>
  /\ UNCHANGED <<genVars, relVars, parseVars, uuidVars, laterVars>>

\* main after the loop: choose the list, exit on an empty one, else
\* saveLogsources; a failed writeFileSync is caught and exits with 1
CatSave ==
  /\ catPc = "generate"
  /\ Len(newLogsources) + skipped = NumProducts
  /\ LET logsourcesToUse == IF Len(newLogsources) > 0 THEN newLogsources
                            ELSE ExistingList(existingLogsources)
     IN  IF Len(logsourcesToUse) = 0
           THEN catPc' = "exit1" /\ UNCHANGED catFile
           ELSE \/ /\ catFile' = [status |-> "ok", hasKey |-> TRUE,
                                  logsources |-> logsourcesToUse]
                   /\ catPc' = "complete"
                \/ catPc' = "exit1" /\ UNCHANGED catFile
  /\ UNCHANGED <<catEnv, existingLogsources, newLogsources, skipped, loaded>>
  /\ UNCHANGED <<genVars, relVars, parseVars, uuidVars, laterVars>>

\* a rule generator reads the saved catalogue: logsources = data.logsources
CatLoadSaved ==
  /\ catPc = "complete"
  /\ loaded' = catFile.logsources
  /\ catPc' = "loaded"
  /\ UNCHANGED <<catEnv, catFile, existingLogsources, newLogsources, skipped>>
  /\ UNCHANGED <<genVars, relVars, parseVars, uuidVars, laterVars>>

CatNext == CatStart \/ CatProcessProduct \/ CatSave \/ CatLoadSaved

InitCatalogue == GenIdle /\ CatInit /\ RelIdle /\ ParseIdle /\ UuidIdle /\ LaterIdle

SpecCatalogue == InitCatalogue /\ [][CatNext]_vars

\* C7: the catalogue the generator saves, and the list a rule generator
\* loads from it, never hold two entries with the same (product, service,
\* category) key.
C7_SavedCatalogueKeysUnique ==
  catPc \in {"complete", "loaded"} =>
    (DistinctKeys(catFile.logsources) /\ DistinctKeys(loaded))

(***************************************************************************)
(* isTechniqueRelevantToLogsource applied to one technique identifier and  *)
(* one log source.                                                         *)
(***************************************************************************)
T1110 == <<"T","1","1","1","0">>
T1071_004 == <<"T","1","0","7","1",".","0","0","4">>
T9999 == <<"T","9","9","9","9">>

RelTechniques == {T1486, T1059_001, T123, TX123, T1110, T1071_004, T9999, <<>>}

\* the categories of the table, categories it does not have, and names
\* that a plain object inherits
RelCategories ==
  DOMAIN techniqueToLogsource \cup
  {"custom_audit", "file_creation", "network", "Process_Creation", ""} \cup
  ObjectPrototypeKeys

RelInit ==
  /\ relPc = "call"
  /\ relTechnique \in RelTechniques
  /\ \E c \in RelCategories : relLogsource = [category |-> c]
  /\ relResult = FALSE

RelCall ==
  /\ relPc = "call"
  /\ relResult' = isTechniqueRelevantToLogsource(relTechnique, relLogsource)
  /\ relPc' = "returned"
  /\ UNCHANGED <<relTechnique, relLogsource>>
  /\ UNCHANGED <<genVars, catVars, parseVars, uuidVars, laterVars>>

RelNext == RelCall

InitRelevance == GenIdle /\ CatIdle /\ RelInit /\ ParseIdle /\ UuidIdle /\ LaterIdle

SpecRelevance == InitRelevance /\ [][RelNext]_vars

\* C8: for a log source whose category is no key of the table,
\* isTechniqueRelevantToLogsource returns true whatever the technique.
C8_UnknownCategoryIsRelevant ==
  (relPc = "returned" /\ relLogsource.category \notin DOMAIN techniqueToLogsource)
    => relResult = TRUE

\* the function has returned true for a technique that no pattern of the
\* table names and a category the table does not have
C8_Witness ==
  /\ relPc = "returned"
  /\ relLogsource.category = "custom_audit"
  /\ relTechnique = T9999
  /\ relResult = TRUE

(***************************************************************************)
(* parseDetectionFromQuery of unnamed/part_002, for the sources that take  *)
(* the line-by-line branch ('sigma', 'splunk') and for a source that takes *)
(* no branch; the regular expressions of the elastic branch are not        *)
(* modelled, so 'elastic' is no input here.                                *)
(***************************************************************************)
MaxLines == 4

IsQuote(c) == c \in {"'", "\""}

\* query.split('\n')
RECURSIVE SplitLines(_)
SplitLines(q) ==
  IF \A i \in DOMAIN q : q[i] # "\n" THEN <<q>>
  ELSE LET n == CHOOSE i \in DOMAIN q : q[i] = "\n" /\ \A j \in 1..(i - 1) : q[j] # "\n"
       IN  <<SubSeq(q, 1, n - 1)>> \o SplitLines(SubSeq(q, n + 1, Len(q)))

\* the index of the first character from i on that is no white space (no
\* word character), Len(s) + 1 when there is none
RECURSIVE SkipSpaces(_, _)
SkipSpaces(s, i) ==
  IF i > Len(s) \/ ~IsSpace(s[i]) THEN i ELSE SkipSpaces(s, i + 1)

RECURSIVE SkipWord(_, _)
SkipWord(s, i) ==
  IF i > Len(s) \/ ~IsWordChar(s[i]) THEN i ELSE SkipWord(s, i + 1)

\* value.trim()
Trim(s) ==
  IF \A i \in DOMAIN s : IsSpace(s[i]) THEN <<>>
  ELSE LET a == SkipSpaces(s, 1)
           b == CHOOSE j \in DOMAIN s : ~IsSpace(s[j]) /\ \A k \in (j + 1)..Len(s) : IsSpace(s[k])
       IN  SubSeq(s, a, b)

\* value.replace(/^['"]|['"]$/g, '')
StripQuotes(v) ==
  LET a == IF v # <<>> /\ IsQuote(v[1]) THEN Tail(v) ELSE v
  IN  IF a # <<>> /\ IsQuote(a[Len(a)]) THEN SubSeq(a, 1, Len(a) - 1) ELSE a

NoMatch == [ok |-> FALSE, field |-> <<>>, value |-> <<>>]

\* line.match(/^\s*(\w+)(?:\|[\w]+)?:\s*(.+)$/): match[1] and match[2].trim().
\* Every quantifier but the last \s* can only match its maximal run; the
\* last \s* gives back what (.+) needs, so match[2] is some suffix of the
\* text after the colon with the same trim, and there is a match exactly
\* when that text is not empty and holds no line terminator.
FieldMatch(line) ==
  LET i == SkipSpaces(line, 1)
      j == SkipWord(line, i)
      k == IF j <= Len(line) /\ line[j] = "|" THEN SkipWord(line, j + 1) ELSE j
      colon == IF j = i THEN 0
               ELSE IF j <= Len(line) /\ line[j] = "|" /\ k = j + 1 THEN 0
               ELSE IF k <= Len(line) /\ line[k] = ":" THEN k
               ELSE 0
      rest == SubSeq(line, colon + 1, Len(line))
  IN  IF colon = 0 \/ rest = <<>> \/ \E n \in DOMAIN rest : rest[n] \in {"\n", "\r"}
        THEN NoMatch
        ELSE [ok |-> TRUE, field |-> SubSeq(line, i, j - 1), value |-> Trim(rest)]

\* line.match(/^\s*-\s*['"]?([^'"]+)['"]?\s*$/): match[1].  A candidate
\* <<a, q, n>> is a way to match: a characters of white space after the
\* dash, q opening quotes, n characters without a quote, then an optional
\* quote and white space up to the end.  The regular expression engine
\* takes the candidate with the longest white space, then with the quote,
\* then with the longest text.
ListMatch(line) ==
  LET i == SkipSpaces(line, 1)
      rest == SubSeq(line, i + 1, Len(line))
      L == Len(rest)
      Tail1(m) == SubSeq(rest, m + 1, L)
      Closes(r) == \/ \A x \in DOMAIN r : IsSpace(r[x])
                   \/ r # <<>> /\ IsQuote(r[1]) /\ \A x \in 2..Len(r) : IsSpace(r[x])
      Cands == {c \in (0..L) \X {0, 1} \X (1..L) :
                  /\ c[1] + c[2] + c[3] <= L
                  /\ \A x \in 1..c[1] : IsSpace(rest[x])
                  /\ c[2] = 1 => IsQuote(rest[c[1] + 1])
                  /\ \A x \in (c[1] + c[2] + 1)..(c[1] + c[2] + c[3]) : ~IsQuote(rest[x])
                  /\ Closes(Tail1(c[1] + c[2] + c[3]))}
      Before(c, d) == \/ c[1] > d[1]
                      \/ c[1] = d[1] /\ c[2] > d[2]
                      \/ c[1] = d[1] /\ c[2] = d[2] /\ c[3] >= d[3]
      best == CHOOSE c \in Cands : \A d \in Cands : Before(c, d)
  IN  IF i > Len(line) \/ line[i] # "-" \/ Cands = {}
        THEN NoMatch
        ELSE [ok |-> TRUE, field |-> <<>>,
              value |-> SubSeq(rest, best[1] + best[2] + 1, best[1] + best[2] + best[3])]

StrCondition == <<"c","o","n","d","i","t","i","o","n">>
StrSelection == <<"s","e","l","e","c","t","i","o","n">>

\* if (!detection[field]) detection[field] = []; detection[field].push(value)
PushValue(det, field, value) ==
  IF \E n \in DOMAIN det : det[n].field = field
    THEN [n \in DOMAIN det |->
            IF det[n].field = field
              THEN [field |-> field, values |-> Append(det[n].values, value)]
              ELSE det[n]]
    ELSE Append(det, [field |-> field, values |-> <<value>>])

\* the body of the loop over lines, applied to the detection object
ParseOneLine(det, line) ==
  LET m == FieldMatch(line)
      value == StripQuotes(m.value)
      det1 == IF m.ok /\ value # <<>> /\ m.field \notin {StrCondition, StrSelection}
                THEN PushValue(det, m.field, value)
                ELSE det
      listMatch == ListMatch(line)
  IN  IF m.ok /\ m.value # <<>> /\ m.value[1] = "-"
        THEN det                     \* continue
        ELSE IF listMatch.ok /\ det1 # <<>>
          THEN PushValue(det1, det1[Len(det1)].field, listMatch.value)
          ELSE det1

LineImageFoo == <<"I","m","a","g","e",":"," ","f","o","o",".","e","x","e">>
LineCommandLine == <<"C","o","m","m","a","n","d","L","i","n","e",":">>
LineBar == <<" "," ","-"," ","b","a","r">>
LineBaz == <<" "," ","-"," ","b","a","z">>
LineQuoted == <<"C","o","m","m","a","n","d","L","i","n","e","|","c","o","n","t","a","i","n","s",":"," ","'","x","'">>
LineCondition == <<"c","o","n","d","i","t","i","o","n",":"," ","s","e","l","e","c","t","i","o","n">>
LineUniverse == {LineImageFoo, LineCommandLine, LineBar, LineBaz, LineQuoted, LineCondition}

\* lines.join('\n')
RECURSIVE JoinLines(_)
JoinLines(ls) ==
  IF ls = <<>> THEN <<>>
  ELSE IF Len(ls) = 1 THEN ls[1]
  ELSE ls[1] \o <<"\n">> \o JoinLines(Tail(ls))

Queries == {JoinLines(ls) : ls \in UNION {SeqsOfLen(LineUniverse, n) : n \in 0..MaxLines}}

NullParsed == [isNull |-> TRUE, det |-> <<>>]

ParseInit ==
  /\ parsePc = "call"
  /\ query \in Queries
  /\ source \in {"sigma", "splunk", "unknown"}
  /\ lines = <<>>
  /\ lineIdx = 1
  /\ detectionObj = <<>>
  /\ parsed = NullParsed

\* if (!query) return null; the choice of the branch; query.split('\n')
ParseStart ==
  /\ parsePc = "call"
  /\ IF query = <<>>
       THEN parsePc' = "returned" /\ UNCHANGED lines
       ELSE IF source \in {"sigma", "splunk"}
         THEN parsePc' = "loop" /\ lines' = SplitLines(query)
         ELSE parsePc' = "return" /\ UNCHANGED lines
  /\ UNCHANGED <<query, source, lineIdx, detectionObj, parsed>>
  /\ UNCHANGED <<genVars, catVars, relVars, uuidVars, laterVars>>

\* one iteration of for (const line of lines)
ParseLine ==
  /\ parsePc = "loop"
  /\ lineIdx <= Len(lines)
  /\ detectionObj' = ParseOneLine(detectionObj, lines[lineIdx])
  /\ lineIdx' = lineIdx + 1
  /\ UNCHANGED <<parsePc, query, source, lines, parsed>>
  /\ UNCHANGED <<genVars, catVars, relVars, uuidVars, laterVars>>

ParseLoopEnd ==
  /\ parsePc = "loop"
  /\ lineIdx > Len(lines)
  /\ parsePc' = "return"
  /\ UNCHANGED <<query, source, lines, lineIdx, detectionObj, parsed>>
  /\ UNCHANGED <<genVars, catVars, relVars, uuidVars, laterVars>>

\* return Object.keys(detection).length > 0 ? detection : null
ParseReturn ==
  /\ parsePc = "return"
  /\ parsed' = IF detectionObj # <<>> THEN [isNull |-> FALSE, det |-> detectionObj]
               ELSE NullParsed
  /\ parsePc' = "returned"
  /\ UNCHANGED <<query, source, lines, lineIdx, detectionObj>>
  /\ UNCHANGED <<genVars, catVars, relVars, uuidVars, laterVars>>

ParseNext == ParseStart \/ ParseLine \/ ParseLoopEnd \/ ParseReturn

InitParse == GenIdle /\ CatIdle /\ RelIdle /\ ParseInit /\ UuidIdle /\ LaterIdle

SpecParse == InitParse /\ [][ParseNext]_vars

ExampleQuery == JoinLines(<<LineImageFoo, LineCommandLine, LineBar, LineBaz>>)
StrImage == <<"I","m","a","g","e">>
StrCommandLine == <<"C","o","m","m","a","n","d","L","i","n","e">>
StrFooExe == <<"f","o","o",".","e","x","e">>
StrBar == <<"b","a","r">>
StrBaz == <<"b","a","z">>

\* C9: the query "Image: foo.exe\nCommandLine:\n  - bar\n  - baz" yields
\* exactly Image = [foo.exe] and CommandLine = [bar, baz]: the list items
\* go to the nearest preceding field line, which has no inline value.
C9_ListItemsJoinNearestField ==
  (parsePc = "returned" /\ query = ExampleQuery /\ source \in {"sigma", "splunk"}) =>
    parsed = [isNull |-> FALSE,
              det |-> <<[field |-> StrImage, values |-> <<StrFooExe>>],
                        [field |-> StrCommandLine, values |-> <<StrBar, StrBaz>>]>>]

(***************************************************************************)
(* generateSigmaYAML and the deterministic generateUUID of                 *)
(* unnamed/part_001.  JavaScript's bitwise operators work on 32-bit        *)
(* integers; a 32-bit word is kept here as its two 16-bit halves.          *)
(***************************************************************************)
MaxRules == 2
MaxDays == 2

\* str.charCodeAt(i), for the characters of the model's strings
charCodeAt(c) ==
  CASE c \in Range(DigitChars) -> 47 + (CHOOSE n \in DOMAIN DigitChars : DigitChars[n] = c)
    [] c \in Range(UpperChars) -> 64 + (CHOOSE n \in DOMAIN UpperChars : UpperChars[n] = c)
    [] c \in Range(LowerChars) -> 96 + (CHOOSE n \in DOMAIN LowerChars : LowerChars[n] = c)
    [] c = " " -> 32
    [] c = "-" -> 45
    [] c = "." -> 46
    [] c = "_" -> 95

Word(n) == [hi |-> (n \div 65536) % 65536, lo |-> n % 65536]

\* a + b and a - b on 32-bit words
AddW(a, b) ==
  LET lo == a.lo + b.lo
  IN  [hi |-> (a.hi + b.hi + lo \div 65536) % 65536, lo |-> lo % 65536]
NegW(a) == AddW([hi |-> 65535 - a.hi, lo |-> 65535 - a.lo], Word(1))
SubW(a, b) == AddW(a, NegW(b))

\* hash << 5
Shl5(a) ==
  LET lo == a.lo * 32
  IN  [hi |-> (a.hi * 32 + lo \div 65536) % 65536, lo |-> lo % 65536]

IsNegative(a) == a.hi >= 32768

\* the loop of generateUUID: hash = ((hash << 5) - hash) + char; hash = hash & hash
\* (the step's result is bound as a value before the next iteration)
RECURSIVE HashFrom(_, _)
HashFrom(hash, str) ==
  IF str = <<>> THEN hash
  ELSE CHOOSE result \in
         {HashFrom(next, Tail(str)) :
            next \in {AddW(SubW(Shl5(hash), hash), Word(charCodeAt(Head(str))))}} : TRUE

HexDigits == <<"0","1","2","3","4","5","6","7","8","9","a","b","c","d","e","f">>

\* n.toString(16) for 0 <= n < 65536 * 65536, given as a word
RECURSIVE ToHex(_)
ToHex(n) == IF n < 16 THEN <<HexDigits[n + 1]>>
            ELSE ToHex(n \div 16) \o <<HexDigits[(n % 16) + 1]>>
Hex4(n) == LET h == ToHex(n) IN [i \in 1..(4 - Len(h)) |-> "0"] \o h
toString16(a) == IF a.hi = 0 THEN ToHex(a.lo) ELSE ToHex(a.hi) \o Hex4(a.lo)

\* s.padStart(n, '0') and s.padEnd(n, '0')
padStart(str, n) == [i \in 1..(n - Len(str)) |-> "0"] \o str
padEnd(str, n) == str \o [i \in 1..(n - Len(str)) |-> "0"]

\* s.slice(a, b) for 0 <= a <= b
slice(str, a, b) == SubSeq(str, a + 1, IF b < Len(str) THEN b ELSE Len(str))

\* a generator whose identifier also depends on the day it runs
generateUUIDPerDay(str) ==
  LET hash == HashFrom(Word(today), str)
      hex == padStart(toString16(IF IsNegative(hash) THEN NegW(hash) ELSE hash), 8)
  IN  slice(hex, 0, 8) \o <<"-">> \o slice(hex, 0, 4) \o <<"-", "4">> \o slice(hex, 1, 4)
      \o <<"-", "a">> \o slice(hex, 1, 4) \o <<"-">> \o padEnd(slice(hex, 0, 12), 12)

\* generateUUID(str)
generateUUID(str) ==
  LET hash == HashFrom(Word(0), str)
      hex == padStart(toString16(IF IsNegative(hash) THEN NegW(hash) ELSE hash), 8)
  IN  slice(hex, 0, 8) \o <<"-">> \o slice(hex, 0, 4) \o <<"-", "4">> \o slice(hex, 1, 4)
      \o <<"-", "a">> \o slice(hex, 1, 4) \o <<"-">> \o padEnd(slice(hex, 0, 12), 12)

\* the rules generateSigmaYAML is called with: rule.name may be undefined,
\* and string concatenation then writes "undefined"
StrUndefined == <<"u","n","d","e","f","i","n","e","d">>
RuleNames == {[defined |-> TRUE, s |-> <<"R","a","n","s","o","m","w","a","r","e"," ","N","o","t","e">>],
              [defined |-> TRUE, s |-> <<"S","u","s","p","i","c","i","o","u","s"," ","P","o","w","e","r","S","h","e","l","l">>],
              [defined |-> FALSE, s |-> <<>>]}
RuleSources == {<<"s","i","g","m","a">>, <<"e","l","a","s","t","i","c">>}
UuidTechniques == {T1486, T1059_001}

ToStr(name) == IF name.defined THEN name.s ELSE StrUndefined

\* generateSigmaYAML: the id and date lines of the rule it returns
generateSigmaYAML(technique, name, ruleSource) ==
  [technique |-> technique, name |-> name, source |-> ruleSource,
   id |-> generateUUID(technique \o ToStr(name) \o ruleSource),
   date |-> today]

UuidInit ==
  /\ today = 0
  /\ yamls = {}

\* organise-rules writes one more rule
GenerateRule ==
  /\ Cardinality(yamls) < MaxRules
  /\ \E technique \in UuidTechniques, name \in RuleNames, ruleSource \in RuleSources :
       yamls' = yamls \cup {generateSigmaYAML(technique, name, ruleSource)}
  /\ UNCHANGED today
  /\ UNCHANGED <<genVars, catVars, relVars, parseVars, laterVars>>

\* the next run happens on a later day
NextDay ==
  /\ today < MaxDays
  /\ today' = today + 1
  /\ UNCHANGED yamls
  /\ UNCHANGED <<genVars, catVars, relVars, parseVars, laterVars>>

UuidNext == GenerateRule \/ NextDay

InitUUID == GenIdle /\ CatIdle /\ RelIdle /\ ParseIdle /\ UuidInit /\ LaterIdle

SpecUUID == InitUUID /\ [][UuidNext]_vars

RandomResolution == 32
MaxRandomStep == 3
MaxUuids == 2

EarlierIdle == GenIdle /\ CatIdle /\ RelIdle /\ ParseIdle /\ UuidIdle /\ ThirdIdle
earlierVars == <<genVars, catVars, relVars, parseVars, uuidVars, thirdVars>>
notRandVars == <<earlierVars, fetchVars, mergeVars, matchVars>>

UuidTemplate ==
  <<"x","x","x","x","x","x","x","x","-","x","x","x","x","-","4","x","x","x",
    "-","y","x","x","x","-","x","x","x","x","x","x","x","x","x","x","x","x">>

\* (Math.random() * 16) | 0
RandomNibble(num) == (num * 16) \div RandomResolution

\* a callback that treats 'y' like 'x'
ReplaceCharAllRandom(c, num) ==
  HexDigits[RandomNibble(num) + 1]

\* the replace callback: r for 'x', (r & 0x3) | 0x8 for 'y', as v.toString(16)
ReplaceChar(c, num) ==
  LET r == RandomNibble(num)
      v == IF c = "x" THEN r ELSE (r % 4) + 8
  IN  HexDigits[v + 1]

\* the numerator of the n-th call of Math.random() after numerator num
RandomAfter(num, step, n) == (num + n * step) % RandomResolution

\* how many characters of template[1..i] the regular expression /[xy]/g matches
RECURSIVE MatchesUpTo(_, _)
MatchesUpTo(template, i) ==
  IF i = 0 THEN 0
  ELSE MatchesUpTo(template, i - 1) + (IF template[i] \in {"x", "y"} THEN 1 ELSE 0)

\* template.replace(/[xy]/g, callback) with the random source at num
RandomUUID(num, step) ==
  [i \in DOMAIN UuidTemplate |->
     IF UuidTemplate[i] \in {"x", "y"}
       THEN ReplaceChar(UuidTemplate[i],
                        RandomAfter(num, step, MatchesUpTo(UuidTemplate, i) - 1))
       ELSE UuidTemplate[i]]

RandInit ==
  /\ rndNum \in 0..(RandomResolution - 1)
  /\ rndStep \in 0..MaxRandomStep
  /\ uuids = <<>>

\* one call of generateUUID()
RandomGenerate ==
  /\ Len(uuids) < MaxUuids
  /\ uuids' = Append(uuids, RandomUUID(rndNum, rndStep))
  /\ rndNum' = RandomAfter(rndNum, rndStep, MatchesUpTo(UuidTemplate, Len(UuidTemplate)))
  /\ UNCHANGED rndStep
  /\ UNCHANGED notRandVars

RandNext == RandomGenerate

InitRandomUUID == EarlierIdle /\ RandInit /\ FetchIdle /\ MergeIdle /\ MatchIdle

SpecRandomUUID == InitRandomUUID /\ [][RandNext]_vars

\* C11: every identifier the random generateUUID returns has 36 characters,
\* a hyphen at (0-based) positions 8, 13, 18 and 23, the character 4 at
\* position 14, one of 8, 9, a, b at position 19 and a lowercase
\* hexadecimal digit everywhere else.
C11_RandomUuidWellFormed ==
  \A k \in DOMAIN uuids :
    LET u == uuids[k]
    IN  /\ Len(u) = 36
        /\ \A i \in 1..36 :
             IF i \in {9, 14, 19, 24} THEN u[i] = "-"
             ELSE IF i = 15 THEN u[i] = "4"
             ELSE IF i = 20 THEN u[i] \in {"8", "9", "a", "b"}
             ELSE u[i] \in Range(HexDigits)

\* two identifiers were generated and the random source returned a value
\* whose low two bits are 00 for the variant character of the first and
\* one whose low two bits are 11 for the variant character of the second
C11_Witness ==
  /\ Len(uuids) = 2
  /\ uuids[1] # uuids[2]
  /\ uuids[1][20] = "8"
  /\ uuids[2][20] = "b"

(***************************************************************************)
(* The output path of an artifact.                                         *)
(***************************************************************************)

\* C12: in the variants that place artifacts below an actor directory, the
\* file of (technique, log source, actor) is
\* <product>/<service>/<actor>/<techniqueId>.yml with the actor name
\* lower-cased and its whitespace replaced by underscores and the technique
\* identifier lower-cased, e.g. linux/auditd/fin7/t1486.yml.
C12_ArtifactPathIsNormalised ==
  script \in {"external", "sigmapat"} =>
    \A w \in written :
      w.path = [product |-> w.ls[1],
                service |-> w.ls[2],
                actor |-> ReplaceSpaces(toLowerCase(w.actor)),
                file |-> toLowerCase(w.tech) \o YmlSuffix]

(***************************************************************************)
(* The detection block of an emitted document.                             *)
(***************************************************************************)

\* C13: in the variants that synthesise conditions, the document emitted
\* for technique T1059.001 "PowerShell" and the log source windows / sysmon /
\* process_creation, when there are no external rules for the technique,
\* has an Image condition with modifier endswith whose values include
\* powershell.exe, and its condition expression is "selection".
C13_PowerShellImageEndswith ==
  script \in {"keyword", "sigmapat", "fieldmap"} =>
    \A w \in written :
      (/\ w.tech = T1059_001
       /\ w.ls = <<"windows", "sysmon", "process_creation">>
       /\ MapGet(sigmaTechniqueMap, w.tech) = <<>>)
      => /\ \E i \in DOMAIN w.conditions.det :
              /\ w.conditions.det[i].key = DetKey("Image", "endswith")
              /\ "powershell.exe" \in Range(w.conditions.det[i].values)
         /\ w.condition = "selection"

(***************************************************************************)
(* The network fetches of a script.  main() awaits one fetch after the     *)
(* other; the fetch function returns a promise that the handlers of the    *)
(* request's events settle.  The server answers every request according    *)
(* to a plan: a status code, a body that is JSON or not, the number of     *)
(* 'data' events, and whether the response completes, the connection       *)
(* fails before a response, or the server falls silent.                    *)
(***************************************************************************)
MaxFetches == 2
MaxChunks == 1

notFetchVars == <<earlierVars, randVars, mergeVars, matchVars>>

\* fetchURL of scripts/intelligent-sigma-generator.js (with request.setTimeout),
\* fetchURL of scripts/fetch-external-rules.js, fetchJSON of unnamed/part_002
FetchFunctions == {"fetchURL", "fetchURLRaw", "fetchJSON"}

ServerPlans ==
  {p \in [status : {200, 404}, body : {"json", "garbage"},
          chunks : 0..MaxChunks, fate : {"complete", "error", "silent"}] :
     p.fate = "error" => (p.chunks = 0 /\ p.status = 200 /\ p.body = "json")}

Plan == fetchPlans[fetchIdx]

\* JSON.parse(data) returns: data is the concatenation of the chunks
ParsesAsJSON(plan) == plan.body = "json" /\ plan.chunks > 0

\* what the 'end' handler makes of the promise
OnEnd(fn, plan) ==
  CASE fn = "fetchURL" ->
         IF ParsesAsJSON(plan) THEN "resolved" ELSE "rejected"
    [] fn = "fetchURLRaw" ->
         IF plan.status = 200 THEN "resolved" ELSE "rejected"
    [] fn = "fetchJSON" ->
         IF plan.status = 200 /\ ParsesAsJSON(plan) THEN "resolved" ELSE "rejected"

\* request.setTimeout(30000, ...) is called by the fetch function
ArmsTimer(fn) == fn = "fetchURL"

\* resolve() and reject() change a pending promise only
Settle(outcome) ==
  promise' = IF promise = "pending" THEN outcome ELSE promise

FetchInit ==
  /\ fetchFn \in FetchFunctions
  /\ fetchPlans \in UNION {[1..n -> ServerPlans] : n \in 1..MaxFetches}
  /\ fetchFatal \in BOOLEAN
  /\ fetchIdx = 1
  /\ fetchPc = "issue"
  /\ promise = "none"
  /\ received = 0
  /\ ended = FALSE
  /\ errored = FALSE
  /\ destroyed = FALSE
  /\ timerArmed = FALSE

\* main() calls the fetch function and awaits the promise
FetchIssue ==
  /\ fetchPc = "issue"
  /\ fetchPc' = "await"
  /\ promise' = "pending"
  /\ received' = 0
  /\ ended' = FALSE
  /\ errored' = FALSE
  /\ destroyed' = FALSE
  /\ timerArmed' = ArmsTimer(fetchFn)
  /\ UNCHANGED <<fetchFn, fetchPlans, fetchFatal, fetchIdx>>
  /\ UNCHANGED notFetchVars

\* res.on('data', ...)
NetData ==
  /\ fetchPc = "await"
  /\ Plan.fate # "error"
  /\ ~destroyed /\ ~ended
  /\ received < Plan.chunks
  /\ received' = received + 1
  /\ UNCHANGED <<fetchFn, fetchPlans, fetchFatal, fetchIdx, fetchPc, promise, ended,
                 errored, destroyed, timerArmed>>
  /\ UNCHANGED notFetchVars

\* res.on('end', ...)
NetEnd ==
  /\ fetchPc = "await"
  /\ Plan.fate = "complete"
  /\ ~destroyed /\ ~ended
  /\ received = Plan.chunks
  /\ ended' = TRUE
  /\ Settle(OnEnd(fetchFn, Plan))
  /\ UNCHANGED <<fetchFn, fetchPlans, fetchFatal, fetchIdx, fetchPc, received,
                 errored, destroyed, timerArmed>>
  /\ UNCHANGED notFetchVars

\* .on('error', reject): the connection fails before a response
NetError ==
  /\ fetchPc = "await"
  /\ Plan.fate = "error"
  /\ ~destroyed /\ ~errored
  /\ errored' = TRUE
  /\ Settle("rejected")
  /\ UNCHANGED <<fetchFn, fetchPlans, fetchFatal, fetchIdx, fetchPc, received,
                 ended, destroyed, timerArmed>>
  /\ UNCHANGED notFetchVars

\* the callback of request.setTimeout: the socket was idle for 30 s
NetTimeout ==
  /\ fetchPc = "await"
  /\ timerArmed
  /\ ~destroyed /\ ~ended /\ ~errored
  /\ destroyed' = TRUE
  /\ Settle("rejected")
  /\ UNCHANGED <<fetchFn, fetchPlans, fetchFatal, fetchIdx, fetchPc, received,
                 ended, errored, timerArmed>>
  /\ UNCHANGED notFetchVars

\* main() resumes after the await
FetchResume ==
  /\ fetchPc = "await"
  /\ promise \in {"resolved", "rejected"}
  /\ IF promise = "rejected" /\ fetchFatal
       THEN fetchPc' = "exited" /\ UNCHANGED fetchIdx
     ELSE IF fetchIdx < Len(fetchPlans)
       THEN fetchPc' = "issue" /\ fetchIdx' = fetchIdx + 1
       ELSE fetchPc' = "emit" /\ UNCHANGED fetchIdx
  /\ UNCHANGED <<fetchFn, fetchPlans, fetchFatal, promise, received, ended, errored,
                 destroyed, timerArmed>>
  /\ UNCHANGED notFetchVars

FetchNext ==
  \/ FetchIssue
  \/ NetData
  \/ NetEnd
  \/ NetError
  \/ NetTimeout
  \/ FetchResume

InitFetch == EarlierIdle /\ RandIdle /\ FetchInit /\ MergeIdle /\ MatchIdle

\* the event loop runs every callback whose event has happened, and main()
\* goes on when the promise it awaits is settled
FetchFairness ==
  /\ WF_vars(FetchIssue)
  /\ WF_vars(NetData)
  /\ WF_vars(NetEnd)
  /\ WF_vars(NetError)
  /\ WF_vars(NetTimeout)
  /\ WF_vars(FetchResume)

SpecFetch == InitFetch /\ [][FetchNext]_vars /\ FetchFairness

\* C14: every fetch that was issued eventually settles, and main() reaches
\* its emit stage or its exit.
C14_EveryFetchSettles ==
  /\ (promise = "pending") ~> (promise \in {"resolved", "rejected"})
  /\ <>(fetchPc \in {"emit", "exited"})

(***************************************************************************)
(* The technique-to-actors map.                                            *)
(***************************************************************************)

\* C15: once the actor data is loaded, no technique's actor list in the map
\* the emit stage iterates holds the same exact actor name twice.
C15_ActorListsHaveNoDuplicates ==
  (script # "organiser" /\ pc \in {"prepareOutput", "emit", "done"}) =>
    \A e \in DOMAIN actorTechMap :
      \A i, j \in DOMAIN actorTechMap[e].items :
        actorTechMap[e].items[i] = actorTechMap[e].items[j] => i = j

(***************************************************************************)
(* mergeRules and main() of scripts/fetch-external-rules.js.  A rule set   *)
(* is an object { technique: [rule, ...] }: the sequence of its            *)
(* properties, each with the identity of its array; the arrays themselves  *)
(* are on the heap, so that a push into a shared array shows.              *)
(***************************************************************************)
MaxRulesPerTechnique == 2

notMergeVars == <<earlierVars, randVars, fetchVars, matchVars>>

MergeSources == <<"elastic", "sigma", "splunk">>
MergeTechniques == {T1486, T1059_001}

\* the i-th rule a fetcher pushed for a technique
FetchedRule(src, tech, i) == [source |-> src, tech |-> tech, name |-> i]

\* the array a fetcher filled for a technique
FetchedArray(src, tech, n) == [i \in 1..n |-> FetchedRule(src, tech, i)]

\* the rule sets a fetcher can return: for each technique no rules or up to
\* MaxRulesPerTechnique rules, the techniques in either order
FetchedRuleSets(src) ==
  {<<>>} \cup
  {<<[tech |-> t, arr |-> <<src, t>>, n |-> n]>> :
     t \in MergeTechniques, n \in 1..MaxRulesPerTechnique} \cup
  {s \in {<<[tech |-> t, arr |-> <<src, t>>, n |-> n],
            [tech |-> u, arr |-> <<src, u>>, n |-> k]>> :
            t \in MergeTechniques, u \in MergeTechniques,
            n \in 1..MaxRulesPerTechnique, k \in 1..MaxRulesPerTechnique} :
     s[1].tech # s[2].tech}

\* the rules of a rule set, array by array
Deep(heap, rules) ==
  [i \in DOMAIN rules |-> [tech |-> rules[i].tech, items |-> heap[rules[i].arr]]]

\* a < b for strings, as Array.prototype.sort() compares them
RECURSIVE StrLess(_, _)
StrLess(a, b) ==
  IF b = <<>> THEN FALSE
  ELSE IF a = <<>> THEN TRUE
  ELSE IF charCodeAt(Head(a)) # charCodeAt(Head(b))
    THEN charCodeAt(Head(a)) < charCodeAt(Head(b))
    ELSE StrLess(Tail(a), Tail(b))

\* Object.keys(merged).sort().forEach(key => { sorted[key] = merged[key]; })
RECURSIVE SortByKey(_)
SortByKey(merged) ==
  IF merged = <<>> THEN <<>>
  ELSE LET least == CHOOSE i \in DOMAIN merged :
                      \A j \in DOMAIN merged : i = j \/ StrLess(merged[i].tech, merged[j].tech)
       IN  <<merged[least]>> \o
           SortByKey([k \in 1..(Len(merged) - 1) |->
                        IF k < least THEN merged[k] ELSE merged[k + 1]])

\* a merge that adopts the first array it sees for a technique
MergeEntryAdopting(st, tech, arr) ==
  IF \E i \in DOMAIN st.merged : st.merged[i].tech = tech
    THEN LET target == st.merged[CHOOSE i \in DOMAIN st.merged : st.merged[i].tech = tech].arr
         IN  [heap |-> [st.heap EXCEPT ![target] = @ \o st.heap[arr]],
              merged |-> st.merged]
    ELSE [heap |-> st.heap,
          merged |-> Append(st.merged, [tech |-> tech, arr |-> arr])]

\* if (!merged[tech]) merged[tech] = []; merged[tech].push(...ruleList);
MergeEntry(st, tech, arr) ==
  IF \E i \in DOMAIN st.merged : st.merged[i].tech = tech
    THEN LET target == st.merged[CHOOSE i \in DOMAIN st.merged : st.merged[i].tech = tech].arr
         IN  [heap |-> [st.heap EXCEPT ![target] = @ \o st.heap[arr]],
              merged |-> st.merged]
    ELSE [heap |-> (<<"merged", tech>> :> (<<>> \o st.heap[arr])) @@ st.heap,
          merged |-> Append(st.merged, [tech |-> tech, arr |-> <<"merged", tech>>])]

\* the two nested loops over the rule sets and their entries
RECURSIVE MergeEntries(_, _)
MergeEntries(st, entries) ==
  IF entries = <<>> THEN st
  ELSE CHOOSE result \in {MergeEntries(next, Tail(entries)) :
                            next \in {MergeEntry(st, Head(entries).tech, Head(entries).arr)}} :
         TRUE

\* mergeRules(...ruleSets): the heap after the call and the object returned
mergeRules(heap, ruleSets) ==
  LET entries == ruleSets[1] \o ruleSets[2] \o ruleSets[3]
      st == MergeEntries([heap |-> heap, merged |-> <<>>], entries)
  IN  [heap |-> st.heap, sorted |-> SortByKey(st.merged)]

\* the arrays the fetchers filled, by identity
InitialArrays(shapes) ==
  LET refs == UNION {{<<k, i>> : i \in DOMAIN shapes[k]} : k \in 1..3}
  IN  [id \in {shapes[r[1]][r[2]].arr : r \in refs} |->
         LET r == CHOOSE r \in refs : shapes[r[1]][r[2]].arr = id
         IN  FetchedArray(id[1], id[2], shapes[r[1]][r[2]].n)]

\* a rule set as main() holds it
RuleSetOf(shape) == [i \in DOMAIN shape |-> [tech |-> shape[i].tech, arr |-> shape[i].arr]]

\* main() after the three fetchers have returned
MergeInit ==
  /\ mergePc = "merge"
  /\ \E e \in FetchedRuleSets("elastic"), g \in FetchedRuleSets("sigma"),
        p \in FetchedRuleSets("splunk") :
       /\ elasticRuleSet = RuleSetOf(e)
       /\ sigmaRuleSet = RuleSetOf(g)
       /\ splunkRuleSet = RuleSetOf(p)
       /\ arrays = InitialArrays(<<e, g, p>>)
       /\ fetchedRuleSets =
            [elastic |-> Deep(InitialArrays(<<e, g, p>>), RuleSetOf(e)),
             sigma |-> Deep(InitialArrays(<<e, g, p>>), RuleSetOf(g)),
             splunk |-> Deep(InitialArrays(<<e, g, p>>), RuleSetOf(p))]
  /\ allRules = <<>>

\* const allRules = mergeRules(elasticRules, sigmaRules, splunkRules);
MergeCall ==
  /\ mergePc = "merge"
  /\ LET r == mergeRules(arrays, <<elasticRuleSet, sigmaRuleSet, splunkRuleSet>>)
     IN  /\ arrays' = r.heap
         /\ allRules' = r.sorted
  /\ mergePc' = "merged"
  /\ UNCHANGED <<elasticRuleSet, sigmaRuleSet, splunkRuleSet, fetchedRuleSets>>
  /\ UNCHANGED notMergeVars

\* fs.writeFileSync(outputPath, JSON.stringify(output, null, 2));
MergeSave ==
  /\ mergePc = "merged"
  /\ mergePc' = "saved"
  /\ UNCHANGED <<elasticRuleSet, sigmaRuleSet, splunkRuleSet, arrays, fetchedRuleSets,
                 allRules>>
  /\ UNCHANGED notMergeVars

MergeNext == MergeCall \/ MergeSave

InitMerge == EarlierIdle /\ RandIdle /\ FetchIdle /\ MergeInit /\ MatchIdle

SpecMerge == InitMerge /\ [][MergeNext]_vars

SourceRank(src) == CASE src = "sigma" -> 1 [] src = "elastic" -> 2 [] src = "splunk" -> 3

\* C16: in the index mergeRules returns, every technique's list has its
\* sigma rules before its elastic rules and its elastic rules before its
\* splunk rules.
C16_MergedListsInPreferenceOrder ==
  mergePc \in {"merged", "saved"} =>
    \A e \in DOMAIN allRules :
      LET items == arrays[allRules[e].arr]
      IN  \A i, j \in DOMAIN items :
            i < j => SourceRank(items[i].source) <= SourceRank(items[j].source)

\* the rules of one source in a list, in the list's order
OfSource(items, src) ==
  FilterSeq(items, {i \in DOMAIN items : items[i].source = src})

\* C17: after mergeRules, the merged object has exactly the techniques of
\* the inputs, each once; a technique's list holds every rule the three
\* inputs have for it exactly once, the rules of one source in their
\* original order; and the input rule sets are as they were.
C17_MergeKeepsEveryRuleOnce ==
  mergePc \in {"merged", "saved"} =>
    LET result == Deep(arrays, allRules)
        before == fetchedRuleSets
    IN  /\ {result[i].tech : i \in DOMAIN result} =
             MapKeys(before.elastic) \cup MapKeys(before.sigma) \cup MapKeys(before.splunk)
        /\ \A i, j \in DOMAIN result : result[i].tech = result[j].tech => i = j
        /\ \A i \in DOMAIN result :
             /\ \A src \in Range(MergeSources) :
                  OfSource(result[i].items, src) = MapGet(before[src], result[i].tech)
             /\ Len(result[i].items) =
                  Len(MapGet(before.elastic, result[i].tech)) +
                  Len(MapGet(before.sigma, result[i].tech)) +
                  Len(MapGet(before.splunk, result[i].tech))
        /\ Deep(arrays, elasticRuleSet) = before.elastic
        /\ Deep(arrays, sigmaRuleSet) = before.sigma
        /\ Deep(arrays, splunkRuleSet) = before.splunk

\* a technique that all three sources have rules for, two of them from
\* elastic, was merged into one list of all its rules
C17_Witness ==
  /\ mergePc = "saved"
  /\ \E e \in DOMAIN allRules :
       /\ allRules[e].tech = T1486
       /\ Len(MapGet(fetchedRuleSets.elastic, T1486)) = 2
       /\ Len(MapGet(fetchedRuleSets.sigma, T1486)) = 1
       /\ Len(MapGet(fetchedRuleSets.splunk, T1486)) = 1
       /\ Len(arrays[allRules[e].arr]) = 4
  /\ Len(allRules) = 2

(***************************************************************************)
(* The selection of the external rule for one technique and log source:    *)
(* findBestMatch of scripts/generate-sigma-rules.js, and findMatchingRules *)
(* of unnamed/part_002 whose caller takes the first element.               *)
(***************************************************************************)
MaxMatchRules == 3

notMatchVars == <<earlierVars, randVars, fetchVars, mergeVars>>

RuleSplunkWin ==
  [source |-> "splunk", product |-> "windows", service |-> "",
   category |-> "", query |-> <<>>]
RuleSigmaWinAnyService ==
  [source |-> "sigma", product |-> "windows", service |-> "",
   category |-> "process_creation", query |-> QueryBash]
RuleElasticNoProduct ==
  [source |-> "elastic", product |-> "", service |-> "sysmon",
   category |-> "", query |-> QueryBash]
RuleSigmaWinNet ==
  [source |-> "sigma", product |-> "windows", service |-> "sysmon",
   category |-> "network_connection", query |-> <<>>]

\* a technique's rules in the index, in the order an index may list them
MatchRuleUniverse ==
  <<RuleSplunkWin, RuleElasticWin, RuleSigmaWinAnyService, RuleSigmaWin,
    RuleSplunkUnknown, RuleElasticNoProduct, RuleElasticLinux, RuleSigmaWinNet>>

MatchFunctions == {"findBestMatch", "findMatchingRules"}

\* const matches = rules.filter(...) of the function
Candidates(fn, rules, logsource) ==
  IF fn = "findBestMatch"
    THEN FilterSeq(rules, {i \in DOMAIN rules : StrictMatch(rules[i], logsource)})
    ELSE FilterSeq(rules,
                   {i \in DOMAIN rules :
                      /\ ~(/\ rules[i].product # ""
                           /\ rules[i].product # "unknown"
                           /\ rules[i].product # logsource.product)
                      /\ ~(/\ rules[i].category # ""
                           /\ rules[i].category # logsource.category)})

\* the rule the caller goes on with: findBestMatch(...), or
\* matchingRules[0] || null of findMatchingRules(...)
Chosen(fn, rules, logsource) ==
  IF fn = "findBestMatch"
    THEN findBestMatch(rules, logsource)
    ELSE LET matchingRules == findMatchingRules(rules, logsource)
         IN  IF matchingRules = <<>> THEN NoRule ELSE matchingRules[1]

MatchInit ==
  /\ matchFn \in MatchFunctions
  /\ matchRules \in SubSeqsOf(MatchRuleUniverse, MaxMatchRules)
  /\ matchLogsource \in Range(LogSourceUniverse)
  /\ matchPc = "call"
  /\ matchSurvivors = <<>>
  /\ matchChosen = NoRule

\* the caller selects the rule for the technique and the log source
MatchSelect ==
  /\ matchPc = "call"
  /\ matchSurvivors' = Candidates(matchFn, matchRules, matchLogsource)
  /\ matchChosen' = Chosen(matchFn, matchRules, matchLogsource)
  /\ matchPc' = "selected"
  /\ UNCHANGED <<matchFn, matchRules, matchLogsource>>
  /\ UNCHANGED notMatchVars

MatchNext == MatchSelect

InitMatch == EarlierIdle /\ RandIdle /\ FetchIdle /\ MergeIdle /\ MatchInit

SpecMatch == InitMatch /\ [][MatchNext]_vars

\* product specified, not "unknown" and the log source's; category, when
\* specified, the log source's
StrictFor(rule, logsource) ==
  /\ rule.product \notin {"", "unknown"}
  /\ rule.product = logsource.product
  /\ rule.category # "" => rule.category = logsource.category

\* C18: every rule that survives the filter for a log source, and the rule
\* selected for it, has a specified product other than "unknown" that is
\* the log source's product, and a category that is unspecified or the
\* log source's category.
C18_OnlyStrictMatchesSurvive ==
  matchPc = "selected" =>
    /\ \A i \in DOMAIN matchSurvivors : StrictFor(matchSurvivors[i], matchLogsource)
    /\ matchChosen # NoRule => StrictFor(matchChosen, matchLogsource)

\* C19: the selected rule is a survivor of the best class there is among
\* the survivors: the log source's service, else source sigma, else source
\* elastic, else the first survivor.
C19_SelectionFollowsPreference ==
  (matchPc = "selected" /\ matchSurvivors # <<>>) =>
    LET has(P(_)) == \E i \in DOMAIN matchSurvivors : P(matchSurvivors[i])
        SameService(r) == r.service = matchLogsource.service
        IsSigma(r) == r.source = "sigma"
        IsElastic(r) == r.source = "elastic"
    IN  /\ \E i \in DOMAIN matchSurvivors : matchSurvivors[i] = matchChosen
        /\ IF has(SameService) THEN SameService(matchChosen)
           ELSE IF has(IsSigma) THEN IsSigma(matchChosen)
           ELSE IF has(IsElastic) THEN IsElastic(matchChosen)
           ELSE matchChosen = matchSurvivors[1]


(***************************************************************************)
(* The relevance filter of scripts/intelligent-sigma-generator.js at the   *)
(* emit stage of its main().                                               *)
(***************************************************************************)
\* techniqueId is matched by at least one regular expression that the table
\* registers for the category
MatchesRegisteredPattern(techniqueId, category) ==
  \E i \in DOMAIN techniqueToLogsource[category] :
    \E lit \in techniqueToLogsource[category][i] :
      Includes(techniqueId, LiteralText(lit))

\* the (technique, log source) pairs main() iterates whose category the
\* table has
TablePairs ==
  {<<TechEntries[i].tech, logsources[j]>> :
     i \in DOMAIN TechEntries,
     j \in {k \in DOMAIN logsources :
              logsources[k].category \in DOMAIN techniqueToLogsource}}

\* C20: in intelligent-sigma-generator.js, for a log source whose category
\* is a key of the table, isTechniqueRelevantToLogsource returns true
\* exactly when the technique id matches at least one pattern registered
\* for that category, and no artifact is written for a (technique, log
\* source) pair that is not relevant.
C20_OnlyRelevantPairsAreWritten ==
  script = "sigmapat" =>
    /\ \A p \in TablePairs :
         isTechniqueRelevantToLogsource(p[1], p[2]) <=>
           MatchesRegisteredPattern(p[1], p[2].category)
    /\ \A w \in written :
         w.ls[3] \in DOMAIN techniqueToLogsource =>
           MatchesRegisteredPattern(w.tech, w.ls[3])

\* the emit stage is over; it wrote an artifact for a pair that a pattern
\* of the table matches and none for a pair of the same run that no
\* pattern matches
C20_Witness ==
  /\ script = "sigmapat"
  /\ pc \notin {"emit", "loadLogsources"}
  /\ wi > NumPairs
  /\ \E w \in written :
       /\ w.ls[3] \in DOMAIN techniqueToLogsource
       /\ MatchesRegisteredPattern(w.tech, w.ls[3])
  /\ \E p \in TablePairs :
       /\ ~MatchesRegisteredPattern(p[1], p[2].category)
       /\ \A w \in written : ~(w.tech = p[1] /\ w.ls = LsKey(p[2]))


(***************************************************************************)
(* The Elastic branch of parseQuery (scripts/generate-sigma-rules.js) and  *)
(* of parseDetectionFromQuery (unnamed/part_002): two matchAll loops over  *)
(* the query, the second adding only fields the first left absent.         *)
(***************************************************************************)
MaxClauses == 3

notElasticVars == <<priorVars, ruleVars, patVars, fmtVars, hashVars>>

\* the index after the longest \w+(?:\.\w+)* that starts at i; i when there
\* is none.  A shorter field is followed by a word character or a dot, so
\* the expression can only go on after the longest one.
RECURSIVE FieldTail(_, _)
FieldTail(s, j) ==
  IF j < Len(s) /\ s[j] = "." /\ IsWordChar(s[j + 1])
    THEN FieldTail(s, SkipWord(s, j + 1))
    ELSE j
FieldEnd(s, i) ==
  IF i > Len(s) \/ ~IsWordChar(s[i]) THEN i ELSE FieldTail(s, SkipWord(s, i))

\* the index of the first character from i on that is in stop, Len(s) + 1
\* when there is none
RECURSIVE SkipUntil(_, _, _)
SkipUntil(s, i, stop) ==
  IF i > Len(s) \/ s[i] \in stop THEN i ELSE SkipUntil(s, i + 1, stop)

\* ["']([^"']+)["'] at p for the quote characters Q: the index of the
\* closing quote, 0 when there is no match
QuotedEnd(s, p, Q) ==
  IF p > Len(s) \/ s[p] \notin Q THEN 0
  ELSE IF SkipUntil(s, p + 1, Q) = p + 1 \/ SkipUntil(s, p + 1, Q) > Len(s) THEN 0
  ELSE SkipUntil(s, p + 1, Q)

\* one more (?:\s*,\s*["']([^"']+)["']) after index e: the index of its
\* opening quote, 0 when there is none
NextItem(s, e, Q) ==
  IF SkipSpaces(s, e + 1) > Len(s) \/ s[SkipSpaces(s, e + 1)] # "," THEN 0
  ELSE IF QuotedEnd(s, SkipSpaces(s, SkipSpaces(s, e + 1) + 1), Q) = 0 THEN 0
  ELSE SkipSpaces(s, SkipSpaces(s, e + 1) + 1)

\* the repetition (...)*: <<opening quote, closing quote>> of its last
\* iteration after the closing quote e, <<0, e>> when it matched nothing
RECURSIVE LastItem(_, _, _, _)
LastItem(s, open, e, Q) ==
  IF NextItem(s, e, Q) = 0 THEN <<open, e>>
  ELSE LastItem(s, NextItem(s, e, Q), QuotedEnd(s, NextItem(s, e, Q), Q), Q)

NoElMatch == [ok |-> FALSE, field |-> <<>>, v1 |-> <<>>, v2 |-> <<>>, end |-> 0]

\* the colon after the field that ends before j: the index after \s*:\s*,
\* 0 when there is no colon
AfterColon(s, j) ==
  IF SkipSpaces(s, j) > Len(s) \/ s[SkipSpaces(s, j)] # ":" THEN 0
  ELSE SkipSpaces(s, SkipSpaces(s, j) + 1)

\* the quoted alternatives at index i, the opening quote at p:
\* match[1], match[2], match[3] (<<>> when undefined) and the index the
\* next search starts at
QuotedMatch(s, i, p, Q, closing) ==
  IF QuotedEnd(s, p, Q) = 0 THEN NoElMatch
  ELSE LET first == QuotedEnd(s, p, Q)
           last == LastItem(s, 0, first, Q)
           after == SkipSpaces(s, last[2] + 1)
       IN  [ok |-> TRUE,
            field |-> SubSeq(s, i, FieldEnd(s, i) - 1),
            v1 |-> SubSeq(s, p + 1, first - 1),
            v2 |-> IF last[1] = 0 THEN <<>>
                   ELSE SubSeq(s, last[1] + 1, last[2] - 1),
            end |-> CASE closing = "spacesThenParen" ->
                           IF after <= Len(s) /\ s[after] = ")" THEN after + 1
                           ELSE last[2] + 1
                      [] closing = "spaces" ->
                           IF after <= Len(s) /\ s[after] = ")" THEN after + 1
                           ELSE after]

\* /(\w+(?:\.\w+)*)\s*:\s*(?:\(\s*)?["']([^"']+)["'](?:\s*,\s*["']([^"']+)["'])*(?:\s*\))?/
\* tried at index i
StrictQueryMatch(s, i) ==
  LET c == AfterColon(s, FieldEnd(s, i))
      p == IF c # 0 /\ c <= Len(s) /\ s[c] = "(" THEN SkipSpaces(s, c + 1) ELSE c
  IN  IF FieldEnd(s, i) = i \/ c = 0 THEN NoElMatch
      ELSE QuotedMatch(s, i, p, {"\"", "'"}, "spacesThenParen")

\* /(\w+(?:\.\w+)*)\s*:\s*\(?\s*"([^"]+)"(?:\s*,\s*"([^"]+)")*\s*\)?/ tried at index i
StrictDetectionMatch(s, i) ==
  LET c == AfterColon(s, FieldEnd(s, i))
      p == IF c # 0 /\ c <= Len(s) /\ s[c] = "(" THEN SkipSpaces(s, c + 1) ELSE c
  IN  IF FieldEnd(s, i) = i \/ c = 0 THEN NoElMatch
      ELSE QuotedMatch(s, i, p, {"\""}, "spaces")

\* /(\w+(?:\.\w+)*)\s*:\s*"([^"]+)"/ tried at index i
SingleMatch(s, i) ==
  LET c == AfterColon(s, FieldEnd(s, i))
      e == QuotedEnd(s, c, {"\""})
  IN  IF FieldEnd(s, i) = i \/ c = 0 \/ e = 0 THEN NoElMatch
      ELSE [ok |-> TRUE, field |-> SubSeq(s, i, FieldEnd(s, i) - 1),
            v1 |-> SubSeq(s, c + 1, e - 1), v2 |-> <<>>, end |-> e + 1]

\* /(\w+(?:\.\w+)*)\s*:\s*\*?([^"'\s\)]+)\*?/ tried at index i.  The value
\* takes the longest run, trailing stars included; the leading star is
\* left to the value only when nothing else follows it.
WildcardStop == {"\"", "'", " ", "\t", "\r", "\n", ")"}
WildcardMatch(s, i) ==
  LET c == AfterColon(s, FieldEnd(s, i))
      star == c # 0 /\ c <= Len(s) /\ s[c] = "*" /\
              SkipUntil(s, c + 1, WildcardStop) > c + 1
      from == IF star THEN c + 1 ELSE c
      to == SkipUntil(s, from, WildcardStop)
  IN  IF FieldEnd(s, i) = i \/ c = 0 \/ to = from THEN NoElMatch
      ELSE [ok |-> TRUE, field |-> SubSeq(s, i, FieldEnd(s, i) - 1),
            v1 |-> SubSeq(s, from, to - 1), v2 |-> <<>>, end |-> to]

MatchAt(kind, s, i) ==
  CASE kind = "strictQuery" -> StrictQueryMatch(s, i)
    [] kind = "strictDetection" -> StrictDetectionMatch(s, i)
    [] kind = "single" -> SingleMatch(s, i)
    [] kind = "wildcard" -> WildcardMatch(s, i)

\* query.matchAll(re): the matches from left to right, each search starting
\* where the match before it ended
RECURSIVE MatchAll(_, _, _)
MatchAll(kind, s, i) ==
  IF i > Len(s) THEN <<>>
  ELSE IF MatchAt(kind, s, i).ok
    THEN <<MatchAt(kind, s, i)>> \o MatchAll(kind, s, MatchAt(kind, s, i).end)
    ELSE MatchAll(kind, s, i + 1)

HasField(fields, field) == \E n \in DOMAIN fields : fields[n].field = field

\* detection[field] = values
SetValues(fields, field, values) ==
  IF HasField(fields, field)
    THEN [n \in DOMAIN fields |->
            IF fields[n].field = field
              THEN [field |-> field, values |-> values] ELSE fields[n]]
    ELSE Append(fields, [field |-> field, values |-> values])

\* fields[field] = [value] whether or not the field is there
AddRegardless(fields, field, value) == SetValues(fields, field, <<value>>)

\* if (!fields[field]) fields[field] = [value]
AddIfAbsent(fields, field, value) ==
  IF HasField(fields, field) THEN fields ELSE SetValues(fields, field, <<value>>)

\* the first loop of either function over its matches
RECURSIVE StrictLoop(_, _, _)
StrictLoop(fn, fields, ms) ==
  IF ms = <<>> THEN fields
  ELSE LET m == Head(ms)
           pushed == IF m.v2 = <<>> THEN PushValue(fields, m.field, m.v1)
                     ELSE PushValue(PushValue(fields, m.field, m.v1), m.field, m.v2)
           assigned == SetValues(fields, m.field,
                                 IF m.v2 = <<>> THEN <<m.v1>> ELSE <<m.v1, m.v2>>)
       IN  StrictLoop(fn, IF fn = "parseQuery" THEN pushed ELSE assigned, Tail(ms))

\* the second loop of either function over its matches
RECURSIVE LooseLoop(_, _, _)
LooseLoop(fn, fields, ms) ==
  IF ms = <<>> THEN fields
  ELSE LET m == Head(ms)
           wanted == fn # "parseQuery" \/ (\A n \in DOMAIN m.v1 : m.v1[n] # ":")
       IN  LooseLoop(fn, IF wanted THEN AddIfAbsent(fields, m.field, m.v1) ELSE fields,
                     Tail(ms))

StrictKind(fn) == IF fn = "parseQuery" THEN "strictQuery" ELSE "strictDetection"
LooseKind(fn) == IF fn = "parseQuery" THEN "wildcard" ELSE "single"

ClauseQuotedA == <<"a",":","\"","x","\"">>
ClauseBareA == <<"a",":","y">>
ClauseWildB == <<"b",":","*","z","*">>
ClauseListA == <<"a"," ",":"," ","(","\"","x","\"",","," ","\"","y","\"",")">>
ClauseSingleQuoted == <<"c",".","d",":","'","w","'">>
ClauseColonValue == <<"b",":","\"","u",":","v","\"">>
ClauseUniverse == {ClauseQuotedA, ClauseBareA, ClauseWildB, ClauseListA, ClauseSingleQuoted, ClauseColonValue}

\* the clauses separated by one space
RECURSIVE JoinClauses(_)
JoinClauses(cs) ==
  IF cs = <<>> THEN <<>>
  ELSE IF Len(cs) = 1 THEN cs[1]
  ELSE cs[1] \o <<" ">> \o JoinClauses(Tail(cs))

ElasticQueries ==
  {JoinClauses(cs) : cs \in UNION {SeqsOfLen(ClauseUniverse, n) : n \in 1..MaxClauses}}

ElasticInit ==
  /\ elFn \in {"parseQuery", "parseDetectionFromQuery"}
  /\ elQuery \in ElasticQueries
  /\ elPc = "strict"
  /\ elStrict = <<>>
  /\ elFields = <<>>

\* the loop over the matches of the first regular expression
ElasticStrictPass ==
  /\ elPc = "strict"
  /\ elStrict' = StrictLoop(elFn, <<>>, MatchAll(StrictKind(elFn), elQuery, 1))
  /\ elPc' = "loose"
  /\ UNCHANGED <<elFn, elQuery, elFields>>
  /\ UNCHANGED notElasticVars

\* the loop over the matches of the second regular expression, and the return
ElasticLoosePass ==
  /\ elPc = "loose"
  /\ elFields' = LooseLoop(elFn, elStrict, MatchAll(LooseKind(elFn), elQuery, 1))
  /\ elPc' = "returned"
  /\ UNCHANGED <<elFn, elQuery, elStrict>>
  /\ UNCHANGED notElasticVars

ElasticNext == ElasticStrictPass \/ ElasticLoosePass

InitElastic == PriorIdle /\ ElasticInit /\ RuleIdle /\ PatIdle /\ FmtIdle /\ HashIdle

SpecElastic == InitElastic /\ [][ElasticNext]_vars

\* C21: when the Elastic branch returns, every field the first (strict,
\* quoted-value) loop populated has exactly the values that loop gave it;
\* the second (looser) loop has only added fields that were absent.
C21_StrictPassTakesPrecedence ==
  elPc = "returned" =>
    /\ \A n \in DOMAIN elStrict : elStrict[n] \in Range(elFields)
    /\ \A n \in DOMAIN elFields :
         HasField(elStrict, elFields[n].field) => elFields[n] \in Range(elStrict)

\* parseQuery has returned: its second loop matched a field the first loop
\* had populated, with another value, and added a field that was absent
C21_Witness ==
  /\ elPc = "returned"
  /\ elFn = "parseQuery"
  /\ \E m \in Range(MatchAll("wildcard", elQuery, 1)) :
       \E n \in DOMAIN elStrict :
         /\ elStrict[n].field = m.field
         /\ m.v1 \notin Range(elStrict[n].values)
  /\ \E n \in DOMAIN elFields : ~HasField(elStrict, elFields[n].field)


(***************************************************************************)
(* generateSigmaRule of unnamed/part_002: the extraction of the detection  *)
(* from the external rule's query and the lines it puts below "selection". *)
(***************************************************************************)
MaxRuleLines == 8

notRuleVars == <<priorVars, elasticVars, patVars, fmtVars, hashVars>>

\* for (const line of lines) { ... }
RECURSIVE ParseLines(_, _)
ParseLines(det, ls) ==
  IF ls = <<>> THEN det ELSE ParseLines(ParseOneLine(det, Head(ls)), Tail(ls))

\* parseDetectionFromQuery(query, source); <<>> is an absent or empty query
DetectionOf(q, src) ==
  CASE src = "elastic" ->
         LooseLoop("parseDetectionFromQuery",
                   StrictLoop("parseDetectionFromQuery", <<>>,
                              MatchAll("strictDetection", q, 1)),
                   MatchAll("single", q, 1))
    [] src \in {"sigma", "splunk"} -> ParseLines(<<>>, SplitLines(q))
    [] OTHER -> <<>>

parseDetectionFromQuery(q, src) ==
  IF q = <<>> THEN NullParsed
  ELSE IF DetectionOf(q, src) # <<>>
    THEN [isNull |-> FALSE, det |-> DetectionOf(q, src)]
    ELSE NullParsed

StrPlaceholder == <<"p","l","a","c","e","h","o","l","d","e","r">>
StrTrue == <<"t","r","u","e">>
StrTargetUserName == <<"T","a","r","g","e","t","U","s","e","r","N","a","m","e">>
StrUser == <<"U","s","e","r">>

\* the characters of a property name of fieldMappings
ToChars(name) ==
  CASE name = "Image" -> StrImage
    [] name = "CommandLine" -> StrCommandLine
    [] name = "User" -> StrUser
    [] name = "TargetUserName" -> StrTargetUserName

\* fieldMappings[field] || field
MappedField(ls, field) ==
  IF \E e \in ls.fm : e[1] = ls.category /\ ToChars(e[2]) = field
    THEN ToChars((CHOOSE e \in ls.fm : e[1] = ls.category /\ ToChars(e[2]) = field)[3])
    ELSE field

\* `    placeholder: true  # No detection logic available`
PlaceholderYAML ==
  <<[key |-> StrPlaceholder, modifier |-> "", list |-> FALSE,
     values |-> <<StrTrue>>, comment |-> TRUE]>>

\* the line (or the key line and its item lines) of one field
FieldYAML(ls, entry) ==
  [key |-> MappedField(ls, entry.field), modifier |-> "contains",
   list |-> Len(entry.values) # 1,
   values |-> IF Len(entry.values) = 1 THEN entry.values
              ELSE Slice(entry.values, 5),
   comment |-> FALSE]

\* the detection block without the fallback: no line at all for no detection
buildDetectionYAMLNoFallback(det, ls) ==
  [n \in DOMAIN det.det |-> FieldYAML(ls, det.det[n])]

buildDetectionYAML(det, ls) ==
  IF det.isNull \/ det.det = <<>> THEN PlaceholderYAML
  ELSE [n \in DOMAIN det.det |-> FieldYAML(ls, det.det[n])]

LineImageEndswith == <<"I","m","a","g","e","|","e","n","d","s","w","i","t","h",":"," ","a",".","e","x","e">>
LineImageContains == <<"I","m","a","g","e","|","c","o","n","t","a","i","n","s",":"," ","b">>
RuleLineList ==
  <<LineImageEndswith, LineImageContains, LineCommandLine, LineBar, LineBaz,
    LineBar, LineBaz, LineBar, LineBaz>>

RuleClauseList ==
  <<ClauseQuotedA, ClauseBareA, ClauseWildB, ClauseListA, ClauseSingleQuoted,
    ClauseColonValue>>

RuleQueries ==
  {<<>>} \cup
  {JoinClauses(cs) : cs \in SubSeqsOf(RuleClauseList, MaxRuleLines) \ {<<>>}} \cup
  {JoinLines(ls) : ls \in SubSeqsOf(RuleLineList, MaxRuleLines) \ {<<>>}}

NoExternalRule == [isNull |-> TRUE]

RuleInit ==
  /\ ruleArg \in {NoExternalRule} \cup
                 {[isNull |-> FALSE, source |-> src, query |-> q] :
                    src \in {"elastic", "sigma", "splunk", "unknown"}, q \in RuleQueries}
  /\ ruleLogsource \in {LsSysmonProc, LsSysmonNet}
  /\ rulePc = "parse"
  /\ ruleDetection = NullParsed
  /\ ruleYAML = <<>>
  /\ ruleStats = [totalRules |-> 0, rulesWithDetection |-> 0, rulesPlaceholder |-> 0]

\* if (externalRule && externalRule.query) detection = parseDetectionFromQuery(...)
RuleParse ==
  /\ rulePc = "parse"
  /\ ruleDetection' =
       IF ~ruleArg.isNull /\ ruleArg.query # <<>>
         THEN parseDetectionFromQuery(ruleArg.query, ruleArg.source)
         ELSE NullParsed
  /\ rulePc' = "build"
  /\ UNCHANGED <<ruleArg, ruleLogsource, ruleYAML, ruleStats>>
  /\ UNCHANGED notRuleVars

\* const detectionYAML = buildDetectionYAML(detection, logsource), and the template
RuleBuild ==
  /\ rulePc = "build"
  /\ ruleYAML' = buildDetectionYAML(ruleDetection, ruleLogsource)
  /\ rulePc' = "built"
  /\ UNCHANGED <<ruleArg, ruleLogsource, ruleDetection, ruleStats>>
  /\ UNCHANGED notRuleVars

\* main after writeFileSync: totalRules++, then rulesWithDetection++ if
\* (bestRule && bestRule.query), else rulesPlaceholder++
RuleCount ==
  /\ rulePc = "built"
  /\ ruleStats' =
       IF ~ruleArg.isNull /\ ruleArg.query # <<>>
         THEN [ruleStats EXCEPT !.totalRules = @ + 1, !.rulesWithDetection = @ + 1]
         ELSE [ruleStats EXCEPT !.totalRules = @ + 1, !.rulesPlaceholder = @ + 1]
  /\ rulePc' = "counted"
  /\ UNCHANGED <<ruleArg, ruleLogsource, ruleDetection, ruleYAML>>
  /\ UNCHANGED notRuleVars

RuleNext == RuleParse \/ RuleBuild \/ RuleCount

InitRule == PriorIdle /\ ElasticIdle /\ RuleInit /\ PatIdle /\ FmtIdle /\ HashIdle

SpecRule == InitRule /\ [][RuleNext]_vars

\* a line of a sigma / splunk query that creates or extends a field by itself
LineYieldsPair(line) ==
  /\ FieldMatch(line).ok
  /\ FieldMatch(line).value # <<>>
  /\ FieldMatch(line).value[1] # "-"
  /\ StripQuotes(FieldMatch(line).value) # <<>>
  /\ FieldMatch(line).field \notin {StrCondition, StrSelection}

\* the query holds a field/value pair the extractor can recover
RecoversPair(rule) ==
  /\ ~rule.isNull
  /\ rule.query # <<>>
  /\ CASE rule.source = "elastic" ->
            \/ MatchAll("strictDetection", rule.query, 1) # <<>>
            \/ MatchAll("single", rule.query, 1) # <<>>
       [] rule.source \in {"sigma", "splunk"} ->
            \E n \in DOMAIN SplitLines(rule.query) : LineYieldsPair(SplitLines(rule.query)[n])
       [] OTHER -> FALSE

\* C22: in generateSigmaRule of part_002 the extracted detection is null
\* exactly when the query yields no field/value pair (an absent query and a
\* source that is neither elastic, sigma nor splunk included), and when it
\* is null the lines below "selection:" are the placeholder line, not nothing.
C22_NullExactlyWhenNothingRecovered ==
  rulePc = "built" =>
    /\ ruleDetection.isNull <=> ~RecoversPair(ruleArg)
    /\ ruleDetection.isNull => ruleYAML = PlaceholderYAML

\* a rule with a query of a source the extractor does not handle has been
\* built with the placeholder line
C22_Witness ==
  /\ rulePc = "built"
  /\ ~ruleArg.isNull
  /\ ruleArg.source = "unknown"
  /\ ruleArg.query # <<>>
  /\ ruleDetection.isNull
  /\ ruleYAML = PlaceholderYAML


\* the key of a field line as the query writes it, modifier included
KeyText(line) ==
  SubSeq(line, SkipSpaces(line, 1), SkipUntil(line, SkipSpaces(line, 1), {":"}) - 1)

\* C23: in the detection extracted from a sigma / splunk query, the values
\* of two field lines whose keys differ (Image|endswith and Image|contains)
\* are never under one key.
C23_ModifiersKeepSeparateKeys ==
  (rulePc = "built" /\ ~ruleArg.isNull /\ ruleArg.source \in {"sigma", "splunk"}) =>
    \A a, b \in Range(SplitLines(ruleArg.query)) :
      (LineYieldsPair(a) /\ LineYieldsPair(b) /\ KeyText(a) # KeyText(b)) =>
        \A n \in DOMAIN ruleDetection.det :
          ~ /\ StripQuotes(FieldMatch(a).value) \in Range(ruleDetection.det[n].values)
            /\ StripQuotes(FieldMatch(b).value) \in Range(ruleDetection.det[n].values)


(***************************************************************************)
(* unnamed/part_000: the generator that emits one rule for every entry of  *)
(* its built-in table TECHNIQUE_PATTERNS that the catalogue has a log      *)
(* source for.  Of a selection block the model keeps the name and the      *)
(* optional flag; a condition expression is kept as its words.             *)
(***************************************************************************)
MaxPatLogsources == 2

notPatVars == <<priorVars, elasticVars, ruleVars, fmtVars, hashVars>>

Block(name) == [filter_name |-> name, optional |-> FALSE]
OptionalBlock(name) == [filter_name |-> name, optional |-> TRUE]
PatternEntry(product, service, category, selection, condition) ==
  [key |-> <<product, service, category>>, selection |-> selection,
   condition |-> condition]

TECHNIQUE_PATTERNS ==
  <<[id |-> "T1059.001",
     patterns |->
       <<PatternEntry("windows", "security", "process_creation",
                      <<Block("selection_powershell"), OptionalBlock("selection_obfuscation")>>,
                      <<"selection_powershell", "or", "selection_obfuscation">>),
         PatternEntry("windows", "sysmon", "process_creation",
                      <<Block("selection")>>, <<"selection">>),
         PatternEntry("linux", "auditd", "process_creation",
                      <<Block("selection")>>, <<"selection">>)>>],
    [id |-> "T1078.001",
     patterns |->
       <<PatternEntry("windows", "security", "process_creation",
                      <<Block("selection_defaults"), OptionalBlock("selection_anomalous")>>,
                      <<"selection_defaults", "and", "selection_anomalous">>),
         PatternEntry("windows", "defender", "process_creation",
                      <<Block("selection")>>, <<"selection">>),
         PatternEntry("m365", "entra_id", "authentication",
                      <<Block("selection")>>, <<"selection">>)>>],
    [id |-> "T1486",
     patterns |->
       <<PatternEntry("windows", "sysmon", "process_creation",
                      <<Block("selection_encryption_tools"),
                        OptionalBlock("selection_bulk_operations")>>,
                      <<"selection_encryption_tools">>),
         PatternEntry("linux", "auditd", "process_creation",
                      <<Block("selection")>>, <<"selection">>),
         PatternEntry("windows", "defender", "process_creation",
                      <<Block("selection")>>, <<"selection">>)>>],
    [id |-> "T1190",
     patterns |->
       <<PatternEntry("windows", "sysmon", "process_creation",
                      <<Block("selection_web_process"), Block("selection_suspicious_child")>>,
                      <<"selection_web_process", "and", "selection_suspicious_child">>),
         PatternEntry("linux", "auditd", "process_creation",
                      <<Block("selection")>>, <<"selection">>)>>],
    [id |-> "T1566.001",
     patterns |->
       <<PatternEntry("m365", "entra_id", "authentication",
                      <<Block("selection_attachment")>>, <<"selection_attachment">>)>>],
    [id |-> "T1070.001",
     patterns |->
       <<PatternEntry("windows", "security", "process_creation",
                      <<Block("selection_wevtutil"), Block("selection_powershell")>>,
                      <<"selection_wevtutil", "or", "selection_powershell">>),
         PatternEntry("windows", "sysmon", "process_creation",
                      <<Block("selection")>>, <<"selection">>)>>]>>

\* techData.patterns[logsourceKey]
PatternFor(techData, logsourceKey) ==
  IF \E n \in DOMAIN techData.patterns : techData.patterns[n].key = logsourceKey
    THEN [isNull |-> FALSE,
          pattern |-> techData.patterns[CHOOSE n \in DOMAIN techData.patterns :
                                          techData.patterns[n].key = logsourceKey]]
    ELSE [isNull |-> TRUE]

\* buildDetectionLogic: the names of the blocks it emits, in order
buildDetectionLogic(selection) ==
  LET keep == {n \in DOMAIN selection : selection[n].filter_name # "condition"}
  IN  [n \in DOMAIN FilterSeq(selection, keep) |-> FilterSeq(selection, keep)[n].filter_name]

\* pattern.condition || 'selection'
ConditionOf(pattern) ==
  IF pattern.condition = <<>> THEN <<"selection">> ELSE pattern.condition

\* the log sources a catalogue can list: those the table has patterns for
\* and one it has none for
PatLogsourceList ==
  <<[product |-> "windows", service |-> "sysmon", category |-> "process_creation"],
    [product |-> "windows", service |-> "security", category |-> "process_creation"],
    [product |-> "linux", service |-> "auditd", category |-> "process_creation"],
    [product |-> "windows", service |-> "defender", category |-> "process_creation"],
    [product |-> "m365", service |-> "entra_id", category |-> "authentication"],
    [product |-> "windows", service |-> "sysmon", category |-> "network_connection"]>>

\* path.join(serviceDir, `${techniqueId}_${logsource.category}.yml`)
PatFilePath(techniqueId, logsource) ==
  [product |-> logsource.product, service |-> logsource.service,
   name |-> <<techniqueId, "_", logsource.category, ".yml">>]

\* the directory before the run: absent, empty, or holding a rule of an
\* earlier run that this run does not write or does write again
PatOutDirs ==
  {[exists |-> FALSE, files |-> {}],
   [exists |-> TRUE, files |-> {}],
   [exists |-> TRUE,
    files |-> {[product |-> "windows", service |-> "sysmon", name |-> <<"old.yml">>]}],
   [exists |-> TRUE, files |-> {PatFilePath("T1486", PatLogsourceList[1])}]}

PatInit ==
  /\ patLogsources \in SubSeqsOf(PatLogsourceList, MaxPatLogsources)
  /\ patTi = 1
  /\ patLi = 1
  /\ patPc = "prepare"
  /\ patWritten = {}
  /\ patOutDir \in PatOutDirs

\* if (!fs.existsSync(baseDir)) fs.mkdirSync(baseDir, { recursive: true })
PatPrepare ==
  /\ patPc = "prepare"
  /\ patOutDir' = IF ~patOutDir.exists THEN [exists |-> TRUE, files |-> {}]
                  ELSE patOutDir
  /\ patPc' = "emit"
  /\ UNCHANGED <<patLogsources, patTi, patLi, patWritten>>
  /\ UNCHANGED notPatVars

\* the step to the next log source, or to the next technique
PatAdvance ==
  IF patLi < Len(patLogsources)
    THEN patLi' = patLi + 1 /\ UNCHANGED patTi
    ELSE patLi' = 1 /\ patTi' = patTi + 1

\* a technique without a pattern for the log source (or a catalogue
\* without log sources)
PatSkip ==
  /\ patPc = "emit"
  /\ patTi <= Len(TECHNIQUE_PATTERNS)
  /\ \/ patLogsources = <<>>
     \/ /\ patLogsources # <<>>
        /\ PatternFor(TECHNIQUE_PATTERNS[patTi], LsKey(patLogsources[patLi])).isNull
  /\ PatAdvance
  /\ UNCHANGED <<patLogsources, patPc, patWritten, patOutDir>>
  /\ UNCHANGED notPatVars

\* generateSigmaRule and writeFileSync
PatWrite ==
  /\ patPc = "emit"
  /\ patTi <= Len(TECHNIQUE_PATTERNS)
  /\ patLogsources # <<>>
  /\ LET techData == TECHNIQUE_PATTERNS[patTi]
         found == PatternFor(techData, LsKey(patLogsources[patLi]))
     IN  /\ ~found.isNull
         /\ patWritten' = patWritten \cup
              {[tech |-> techData.id, ls |-> LsKey(patLogsources[patLi]),
                blocks |-> buildDetectionLogic(found.pattern.selection),
                condition |-> ConditionOf(found.pattern)]}
         /\ patOutDir' = [patOutDir EXCEPT
              !.files = @ \cup {PatFilePath(techData.id, patLogsources[patLi])}]
  /\ PatAdvance
  /\ UNCHANGED <<patLogsources, patPc>>
  /\ UNCHANGED notPatVars

PatFinish ==
  /\ patPc = "emit"
  /\ patTi > Len(TECHNIQUE_PATTERNS)
  /\ patPc' = "done"
  /\ UNCHANGED <<patLogsources, patTi, patLi, patWritten, patOutDir>>
  /\ UNCHANGED notPatVars

PatNext == PatPrepare \/ PatSkip \/ PatWrite \/ PatFinish

InitPatterns == PriorIdle /\ ElasticIdle /\ RuleIdle /\ PatInit /\ FmtIdle /\ HashIdle

SpecPatterns == InitPatterns /\ [][PatNext]_vars

\* the block names a condition expression refers to
ReferencedBlocks(condition) == Range(condition) \ {"and", "or", "not"}

\* C24: the condition expression of every rule written from the pattern
\* table refers to exactly the blocks the rule's detection section holds.
C24_ConditionNamesExactlyTheBlocks ==
  \A w \in patWritten : ReferencedBlocks(w.condition) = Range(w.blocks)


(***************************************************************************)
(* The bounds of buildDetectionFromSigmaPatterns, seen in the rules that   *)
(* scripts/intelligent-sigma-generator.js writes.                          *)
(***************************************************************************)
\* the rules of the technique that match the log source <<product, service,
\* category>>, in the order of the map
MatchingSigmaRules(techniqueId, ls) ==
  LET rules == MapGet(sigmaTechniqueMap, techniqueId)
  IN  FilterSeq(rules, {i \in DOMAIN rules :
                          /\ rules[i].product = ls[1]
                          /\ \/ rules[i].service = ls[2]
                             \/ rules[i].category = ls[3]})

\* the patterns allowed to contribute: the first two of each of the first
\* three matching rules
AllowedPatterns(techniqueId, ls) ==
  UNION {{MatchingSigmaRules(techniqueId, ls)[i].detections[j] :
            j \in {m \in DOMAIN MatchingSigmaRules(techniqueId, ls)[i].detections : m <= 2}} :
         i \in {n \in DOMAIN MatchingSigmaRules(techniqueId, ls) : n <= 3}}

\* some allowed pattern has a usable value: the detection comes from the
\* external rules and not from the field-mapping fallback
FromExternalRules(techniqueId, ls) ==
  \E pattern \in AllowedPatterns(techniqueId, ls) :
    pattern.field # "" /\ FilteredValues(pattern.values) # <<>>

QueryLimit == 2000
MaxOver == 2

notFmtVars == <<priorVars, elasticVars, ruleVars, patVars, hashVars>>

StrNoDetection == <<" "," "," "," ","#"," ","N","o"," ","d","e","t","e","c","t","i","o","n"," ","l","o","g","i","c"," ","a","v","a","i","l","a","b","l","e">>
StrCommentPrefix == <<" "," "," "," ","#"," ">>
StrTruncated == <<"\n",".",".","."," ","[","t","r","u","n","c","a","t","e","d","]">>

\* '    # ' + line, for every line
CommentLines(ls) == [n \in DOMAIN ls |-> StrCommentPrefix \o ls[n]]

\* the lines of the string formatQuery returns
formatQuery(q) ==
  IF q = <<>> THEN <<StrNoDetection>>
  ELSE IF Len(q) > QueryLimit
    THEN CommentLines(SplitLines(SubSeq(q, 1, QueryLimit) \o StrTruncated))
    ELSE CommentLines(SplitLines(q))

\* a query of the given length: one character repeated, with line breaks
\* at the given positions
MakeQuery(len, fill, breaks) ==
  [i \in 1..len |-> IF i \in breaks THEN "\n" ELSE fill]

QueryLengths == (0..MaxOver) \cup ((QueryLimit - MaxOver)..(QueryLimit + MaxOver))

BreakSets == {{}, {2}, {QueryLimit - 1}, {QueryLimit}, {QueryLimit + 1}, {2, QueryLimit + 1}}

FmtInit ==
  /\ fmtQuery \in {MakeQuery(len, fill, breaks) :
                     len \in QueryLengths, fill \in {"a", "b", ":"}, breaks \in BreakSets}
  /\ fmtPc = "call"
  /\ fmtOutput = <<>>

FmtCall ==
  /\ fmtPc = "call"
  /\ fmtOutput' = formatQuery(fmtQuery)
  /\ fmtPc' = "returned"
  /\ UNCHANGED fmtQuery
  /\ UNCHANGED notFmtVars

FmtNext == FmtCall

InitFormat == PriorIdle /\ ElasticIdle /\ RuleIdle /\ PatIdle /\ FmtInit /\ HashIdle

SpecFormat == InitFormat /\ [][FmtNext]_vars

\* the text the comment lines carry
Uncomment(ls) ==
  JoinLines([n \in DOMAIN ls |->
               SubSeq(ls[n], Len(StrCommentPrefix) + 1, Len(ls[n]))])

\* C26: what formatQuery puts out for a non-empty query is the query
\* itself when it has at most 2000 characters, and its first 2000
\* characters, with nothing in place of the rest, when it is longer.
C26_LongQueryCutSilently ==
  (fmtPc = "returned" /\ fmtQuery # <<>>) =>
    Uncomment(fmtOutput) =
      IF Len(fmtQuery) > QueryLimit THEN SubSeq(fmtQuery, 1, QueryLimit) ELSE fmtQuery


(***************************************************************************)
(* The fallback of scripts/generate-logsources.js to the catalogue that    *)
(* is already on disk.                                                     *)
(***************************************************************************)
\* C27: the catalogue generator saves the generated list when it is not
\* empty and otherwise the entries of the readable existing catalogue; it
\* writes the file only when it completes, never with an empty list, and
\* an exit with status 1 leaves the file as it was.
C27_ExistingCatalogueKept ==
  /\ [](catPc \in {"complete", "loaded"} =>
          /\ catFile.logsources # <<>>
          /\ catFile.logsources =
               IF newLogsources # <<>> THEN newLogsources
               ELSE existingLogsources.logsources)
  /\ [][/\ catFile' # catFile => (catPc' = "complete" /\ catFile'.logsources # <<>>)
        /\ catPc' = "exit1" => catFile' = catFile]_vars

\* nothing was generated and the entries of the existing catalogue were
\* saved again
C27_Witness ==
  /\ catPc = "complete"
  /\ newLogsources = <<>>
  /\ skipped = NumProducts
  /\ ~existingLogsources.isNull
  /\ existingLogsources.logsources # <<>>
  /\ catFile.logsources = existingLogsources.logsources


(***************************************************************************)
(* The output directory after a run.                                       *)
(***************************************************************************)
\* C28: when the run of the pattern-table generator is over, its output
\* directory holds exactly the rule files written during the run.
C28_OnlyThisRunsFiles ==
  patPc = "done" =>
    patOutDir.files =
      {PatFilePath(w.tech, [product |-> w.ls[1], service |-> w.ls[2],
                            category |-> w.ls[3]]) : w \in patWritten}


(***************************************************************************)
(* The summary counters of the generator of unnamed/part_002.              *)
(***************************************************************************)
\* C29: totalRules is the sum of rulesWithDetection and rulesPlaceholder, a
\* rule is counted under rulesWithDetection only if its detection block
\* holds extracted conditions, and a rule emitted with the placeholder
\* detection is counted under rulesPlaceholder.
C29_CountersMatchEmittedDetection ==
  rulePc = "counted" =>
    /\ ruleStats.totalRules = ruleStats.rulesWithDetection + ruleStats.rulesPlaceholder
    /\ ruleStats.rulesWithDetection > 0 => ruleYAML # PlaceholderYAML
    /\ ruleYAML = PlaceholderYAML => ruleStats.rulesPlaceholder > 0


(***************************************************************************)
(* The loop of the deterministic generateUUID of unnamed/part_001, one     *)
(* character per step.  A number is kept as hi * 65536 + lo with lo in     *)
(* 0..65535 and hi any integer, so that the sum of a step can leave the    *)
(* 32-bit range before "hash & hash" brings it back.                       *)
(***************************************************************************)
MaxHashLen == 9
notHashVars == <<priorVars, elasticVars, ruleVars, patVars, fmtVars>>

\* the hi part of the 32-bit integer a number is reduced to
Wrap16(x) == ((x + 32768) % 65536) - 32768

\* ToInt32, applied by << and by &
ToInt32Keep(n) == n
ToInt32(n) == [hi |-> Wrap16(n.hi), lo |-> n.lo]

IsInt32(n) == n.hi \in -32768..32767 /\ n.lo \in 0..65535

\* hash << 5
ShiftLeft5(n) ==
  LET lo == ToInt32(n).lo * 32
  IN  [hi |-> Wrap16(ToInt32(n).hi * 32 + lo \div 65536), lo |-> lo % 65536]

\* a - b and a + c on numbers, without wrapping
Minus(a, b) ==
  LET lo == a.lo - b.lo
  IN  [hi |-> a.hi - b.hi + lo \div 65536, lo |-> lo % 65536]
Plus(a, c) ==
  LET lo == a.lo + c
  IN  [hi |-> a.hi + lo \div 65536, lo |-> lo % 65536]

\* ((hash << 5) - hash) + char
StepSum(n, c) == Plus(Minus(ShiftLeft5(n), n), charCodeAt(c))

\* Math.abs(hash)
Abs(n) == IF n.hi < 0 THEN Minus([hi |-> 0, lo |-> 0], n) ELSE n

\* the template of the return statement
FormatUUID(hex) ==
  slice(hex, 0, 8) \o <<"-">> \o slice(hex, 0, 4) \o <<"-", "4">> \o slice(hex, 1, 4)
  \o <<"-", "a">> \o slice(hex, 1, 4) \o <<"-">> \o padEnd(slice(hex, 0, 12), 12)

\* the strings hashed: every string of up to three characters over a small
\* alphabet, runs of one character up to MaxHashLen, and the strings
\* generateSigmaYAML passes
HashAlphabet == {"0", "z", " "}
ShortStrings == UNION {[1..n -> HashAlphabet] : n \in 0..3}
Runs == {[i \in 1..n |-> c] : n \in 4..MaxHashLen, c \in {"z", "A"}}
RuleStrings == {technique \o ToStr(name) \o ruleSource :
                  technique \in UuidTechniques, name \in RuleNames,
                  ruleSource \in RuleSources}
HashStrings == ShortStrings \cup Runs \cup RuleStrings

HashInit ==
  /\ hashStr \in HashStrings
  /\ hashI = 0
  /\ hashVal = [hi |-> 0, lo |-> 0]
  /\ hashPc = "loop"
  /\ hashWrapped = FALSE
  /\ hashId = <<>>

\* one iteration: hash = ((hash << 5) - hash) + char; hash = hash & hash
HashStep ==
  /\ hashPc = "loop"
  /\ hashI < Len(hashStr)
  /\ hashVal' = ToInt32(StepSum(hashVal, hashStr[hashI + 1]))
  /\ hashWrapped' = (hashWrapped \/ ~IsInt32(StepSum(hashVal, hashStr[hashI + 1])))
  /\ hashI' = hashI + 1
  /\ UNCHANGED <<hashStr, hashPc, hashId>>
  /\ UNCHANGED notHashVars

\* after the loop: hex and the returned string
HashReturn ==
  /\ hashPc = "loop"
  /\ hashI = Len(hashStr)
  /\ hashId' = FormatUUID(padStart(toString16(Abs(hashVal)), 8))
  /\ hashPc' = "returned"
  /\ UNCHANGED <<hashStr, hashI, hashVal, hashWrapped>>
  /\ UNCHANGED notHashVars

HashNext == HashStep \/ HashReturn

InitHash == PriorIdle /\ ElasticIdle /\ RuleIdle /\ PatIdle /\ FmtIdle /\ HashInit

SpecHash == InitHash /\ [][HashNext]_vars

\* the positions of the hyphens in an identifier of groups 8-4-4-4-12
HyphenAt == {9, 14, 19, 24}

\* C30: for every string the running hash of the deterministic generateUUID
\* is a signed 32-bit integer after each character, and the identifier
\* returned has five hyphen-separated groups of 8, 4, 4, 4 and 12
\* hexadecimal characters, the third group starting with "4".
C30_HashStaysInt32AndIdWellFormed ==
  /\ IsInt32(hashVal)
  /\ hashPc = "returned" =>
       /\ Len(hashId) = 36
       /\ \A i \in 1..36 : IF i \in HyphenAt THEN hashId[i] = "-"
                           ELSE hashId[i] \in Range(HexDigits)
       /\ hashId[15] = "4"

\* an identifier has been returned for a string whose hash left the 32-bit
\* range on the way and ended negative
C30_Witness ==
  /\ hashPc = "returned"
  /\ hashWrapped
  /\ hashVal.hi < 0
  /\ Len(hashId) = 36

====
